---- MODULE Spec2Model ----
(***************************************************************************)
(* PSDL scenario parser (src/src/psdl/core/parser.py).                     *)
(*                                                                         *)
(* Text is a sequence of one-character strings, so that the regular        *)
(* expressions of the parser are matched character by character.  A YAML   *)
(* value is a tagged record [t |-> tag, v |-> tuple]; an optional Python   *)
(* value is <<>> (None) or <<x>>.                                          *)
(***************************************************************************)
EXTENDS Integers, Sequences, FiniteSets, TLC

VARIABLES
  pc,        \* position of the caller: "idle", "parsing", or a pure-function position
  content,   \* the document handed to parse_string (already through yaml.safe_load)
  errors,    \* PSDLParser.errors
  warnings,  \* PSDLParser.warnings
  outcome,   \* what the last call returned or raised
  calls,     \* number of parse_string calls made on the instance
  expr,      \* argument of the expression parser under check
  parsed,    \* its result
  args,      \* arguments of the operator or evaluation call under check
  result,    \* what that call gave
  backend,   \* the OMOPBackend object and the engines it has made
  files      \* the files tools/codegen.py reads and writes

vars ==
  <<pc, content, errors, warnings, outcome, calls, expr, parsed, args, result, backend, files>>

(***************************************************************************)
(* Characters and character classes of Python's re module.                 *)
(***************************************************************************)
LowerSeq == <<"a", "b", "c", "d", "e", "f", "g", "h", "i", "j", "k", "l", "m", "n", "o", "p", "q", "r", "s", "t", "u", "v", "w", "x", "y", "z">>
UpperSeq == <<"A", "B", "C", "D", "E", "F", "G", "H", "I", "J", "K", "L", "M", "N", "O", "P", "Q", "R", "S", "T", "U", "V", "W", "X", "Y", "Z">>
DigitChars == {"0", "1", "2", "3", "4", "5", "6", "7", "8", "9"}
WordChars ==
  {LowerSeq[k] : k \in 1..Len(LowerSeq)} \cup {UpperSeq[k] : k \in 1..Len(UpperSeq)}
  \cup DigitChars \cup {"_"}
SpaceChars == {" ", "\t", "\n"}
UnitChars == {"s", "m", "h", "d"}


Max(S) == CHOOSE m \in S : \A n \in S : n <= m
Min(S) == CHOOSE m \in S : \A n \in S : m <= n

\* The character of s at position i, "" past either end.
At(s, i) == IF i >= 1 /\ i <= Len(s) THEN s[i] ELSE ""

\* Greedy C*: the position after the longest run of characters of C from i.
Span(s, i, C) ==
  IF i > Len(s) THEN i
  ELSE Max({j \in i..(Len(s) + 1) : \A k \in i..(j - 1) : s[k] \in C})

SkipWs(s, i) == Span(s, i, SpaceChars)

\* str.strip()
strip(s) ==
  LET a == Span(s, 1, SpaceChars)
      b == Max({0} \cup {j \in 1..Len(s) : s[j] \notin SpaceChars})
  IN  IF a > b THEN <<>> ELSE SubSeq(s, a, b)

RECURSIVE DigitsToInt(_)
\* int() of a run of decimal digits
DigitsToInt(ds) ==
  IF ds = <<>> THEN 0
  ELSE 10 * DigitsToInt(SubSeq(ds, 1, Len(ds) - 1))
       + (CHOOSE d \in 0..9 :
            <<"0", "1", "2", "3", "4", "5", "6", "7", "8", "9">>[d + 1] = ds[Len(ds)])

RECURSIVE Reduce10(_, _)
\* the decimal n / 10^k with trailing zeros of the fraction dropped
Reduce10(n, k) ==
  IF k > 0 /\ n % 10 = 0 THEN Reduce10(n \div 10, k - 1) ELSE [num |-> n, exp |-> k]

\* float() of text matching -?\d+\.?\d*: the decimal it denotes, num / 10^exp
float(t) ==
  LET neg == At(t, 1) = "-"
      body == IF neg THEN SubSeq(t, 2, Len(t)) ELSE t
      dot == Span(body, 1, DigitChars)
      whole == SubSeq(body, 1, dot - 1)
      frac == SubSeq(body, dot + 1, Len(body))
      mag == DigitsToInt(whole \o frac)
  IN  Reduce10(IF neg THEN 0 - mag ELSE mag, Len(frac))

(***************************************************************************)
(* Results of a function that may raise.                                   *)
(***************************************************************************)
Return(v) == [exc |-> "none", msg |-> <<>>, val |-> <<v>>]
Raise(kind, m) == [exc |-> kind, msg |-> m, val |-> <<>>]
Raised(r) == r.exc # "none"
ValueOf(r) == r.val[1]

(***************************************************************************)
(* WindowSpec and the window token.                                        *)
(***************************************************************************)
WindowSpec(value, unit) == [value |-> value, unit |-> unit]

\* WINDOW_PATTERN = ^(\d+)(s|m|h|d)$
WINDOW_PATTERN(s) ==
  LET d == Span(s, 1, DigitChars)
  IN  IF d > 1 /\ At(s, d) \in UnitChars /\ d = Len(s)
      THEN <<SubSeq(s, 1, d - 1), <<s[d]>> >>
      ELSE <<>>

parse_window(window_str) ==
  LET match == WINDOW_PATTERN(window_str)
  IN  IF match = <<>>
      THEN Raise("PSDLParseError", <<"Invalid window specification", window_str>>)
      ELSE Return(WindowSpec(DigitsToInt(match[1]), match[2][1]))

(***************************************************************************)
(* Trend expressions.                                                      *)
(***************************************************************************)
TrendExpr(name, operator, signal, window, comparator, threshold, raw_expr) ==
  [name |-> name, operator |-> operator, signal |-> signal, window |-> window,
   comparator |-> comparator, threshold |-> threshold, raw_expr |-> raw_expr,
   description |-> <<>>]

\* the alternation (delta|slope|...|percentile), in the order the pattern tries it
TrendOps ==
  <<<<"d", "e", "l", "t", "a">>,
    <<"s", "l", "o", "p", "e">>,
    <<"e", "m", "a">>,
    <<"s", "m", "a">>,
    <<"m", "i", "n">>,
    <<"m", "a", "x">>,
    <<"c", "o", "u", "n", "t">>,
    <<"l", "a", "s", "t">>,
    <<"f", "i", "r", "s", "t">>,
    <<"s", "t", "d">>,
    <<"s", "t", "d", "d", "e", "v">>,
    <<"p", "e", "r", "c", "e", "n", "t", "i", "l", "e">>>>

\* What follows the operator name in both trend patterns:
\*   \s*\(\s*(\w+)(?:\s*,\s*(\d+[smhd]))?\s*\)
\* and then either  \s*([<>=!]+)\s*(-?\d+\.?\d*)$  (withCmp) or  $.
\* Every class is disjoint from what may follow it, so the greedy match is the
\* only match.  Positions are computed from the position i after the operator.

\* (?:\s*,\s*(\d+[smhd]))? from the end i3 of the signal name
WinStart(s, i3) == SkipWs(s, SkipWs(s, i3) + 1)
WinDigitsEnd(s, i3) == Span(s, WinStart(s, i3), DigitChars)
HasWin(s, i3) ==
  /\ At(s, SkipWs(s, i3)) = ","
  /\ WinDigitsEnd(s, i3) > WinStart(s, i3)
  /\ At(s, WinDigitsEnd(s, i3)) \in UnitChars
\* \s*([<>=!]+)\s* from the closing parenthesis at k1
CmpStart(s, k1) == SkipWs(s, k1 + 1)
CmpEnd(s, k1) == Span(s, CmpStart(s, k1), {"<", ">", "=", "!"})
ThrStart(s, k1) == SkipWs(s, CmpEnd(s, k1))

IntEnd(s, k4) == Span(s, (IF At(s, k4) = "-" THEN k4 + 1 ELSE k4), DigitChars)
NumEnd(s, k4) ==
  IF IntEnd(s, k4) > (IF At(s, k4) = "-" THEN k4 + 1 ELSE k4)
  THEN Span(s, IF At(s, IntEnd(s, k4)) = "." THEN IntEnd(s, k4) + 1 ELSE IntEnd(s, k4),
            DigitChars)
  ELSE 0

TailGroups(s, i2, i3, k1, ok, withCmp) ==
  [ok |-> ok,
   signal |-> IF ok THEN SubSeq(s, i2, i3 - 1) ELSE <<>>,
   window_str |-> IF ok /\ HasWin(s, i3)
                  THEN SubSeq(s, WinStart(s, i3), WinDigitsEnd(s, i3)) ELSE <<>>,
   comparator |-> IF ok /\ withCmp
                  THEN SubSeq(s, CmpStart(s, k1), CmpEnd(s, k1) - 1) ELSE <<>>,
   threshold |-> IF ok /\ withCmp
                 THEN SubSeq(s, ThrStart(s, k1), NumEnd(s, ThrStart(s, k1)) - 1) ELSE <<>>]

TailAt(s, i1, i2, i3, k1, withCmp) ==
  TailGroups(s, i2, i3, k1,
             /\ At(s, i1) = "("
             /\ i3 > i2
             /\ At(s, k1) = ")"
             /\ IF withCmp
                THEN /\ CmpEnd(s, k1) > CmpStart(s, k1)
                     /\ NumEnd(s, ThrStart(s, k1)) = Len(s) + 1
                ELSE k1 = Len(s),
             withCmp)

TrendTail(s, i, withCmp) ==
  LET sigStart == SkipWs(s, SkipWs(s, i) + 1)
      sigEnd == Span(s, sigStart, WordChars)
  IN TailAt(s, SkipWs(s, i), sigStart, sigEnd,
            SkipWs(s, IF HasWin(s, sigEnd) THEN WinDigitsEnd(s, sigEnd) + 1 ELSE sigEnd),
            withCmp)

\* match of ^(op1|op2|...)<tail>: the first alternative after which the tail matches
FirstFit(s, withCmp) ==
  Min({k \in 1..Len(TrendOps) :
         /\ Len(s) >= Len(TrendOps[k])
         /\ SubSeq(s, 1, Len(TrendOps[k])) = TrendOps[k]
         /\ TrendTail(s, Len(TrendOps[k]) + 1, withCmp).ok}
      \cup {Len(TrendOps) + 1})

TrendMatch(s, k, withCmp) ==
  IF k > Len(TrendOps) THEN <<>>
  ELSE LET g == TrendTail(s, Len(TrendOps[k]) + 1, withCmp)
       IN <<[operator |-> TrendOps[k], signal |-> g.signal, window_str |-> g.window_str,
             comparator |-> g.comparator, threshold |-> g.threshold]>>

\* lines 239-247 and 250-261: both branches build the TrendExpr from the groups
\* (the simple pattern's comparator and threshold groups are absent)
BuildTrend(name, x, m, window) ==
  IF Raised(window) THEN window
  ELSE Return(TrendExpr(name, m.operator, m.signal, ValueOf(window), m.comparator,
                        IF m.threshold = <<>> THEN <<>> ELSE <<float(m.threshold)>>, x))

OptWindow(window_str) ==
  IF window_str = <<>> THEN Return(<<>>)
  ELSE IF Raised(parse_window(window_str)) THEN parse_window(window_str)
  ELSE Return(<<ValueOf(parse_window(window_str))>>)

TrendFrom(name, x, match, simple_match) ==
  IF match # <<>> THEN BuildTrend(name, x, match[1], OptWindow(match[1].window_str))
  ELSE IF simple_match # <<>>
  THEN BuildTrend(name, x, simple_match[1], OptWindow(simple_match[1].window_str))
  ELSE Raise("PSDLParseError", <<"Invalid trend expression", x>>)

parse_trend_expr(name, e) ==
  TrendFrom(name, strip(e), TrendMatch(strip(e), FirstFit(strip(e), TRUE), TRUE),
            TrendMatch(strip(e), FirstFit(strip(e), FALSE), FALSE))

(***************************************************************************)
(* The expression parser on its own: _parse_trend_expr applied to one      *)
(* expression text.                                                        *)
(***************************************************************************)
Pending == [exc |-> "pending", msg |-> <<>>, val |-> <<>>]
NoDocument == [t |-> "none", v |-> <<>>]


\* expression texts: an operator name (one not in the grammar among them), the
\* signal, a window part, a comparator part and a threshold part
TrendInputs ==
  {o \o <<"(">> \o <<"C", "r">> \o w \o <<")">> \o c \o th :
     o \in {TrendOps[k] : k \in 1..Len(TrendOps)} \cup {<<"m", "e", "d", "i", "a", "n">>},
     w \in {<<>>, <<",", "6", "h">>, <<",", " ", "3", "0", "m">>, <<",", "0", "h">>, <<",", "-", "6", "h">>, <<",", "h">>, <<",", "6", "x">>, <<",", "1", "d">>, <<",", "9", "0", "s">>, <<",", "6", "h", ",", "5", "0">>, <<",", " ", "6", "h", ",", " ", "5", "0">>, <<",", "6">>},
     c \in {<<>>, <<">">>, <<" ", ">", "=", " ">>, <<"<">>, <<"<", "=">>, <<"=", "=">>, <<"!", "=">>, <<"=">>, <<"<", ">">>, <<"=", "!">>, <<">", ">">>, <<"=", ">">>},
     th \in {<<>>, <<"5">>, <<" ", "0", ".", "3">>, <<"-", "1">>, <<"x">>, <<"0">>}}

InitTrend ==
  /\ pc = "trend_expr"
  /\ expr \in TrendInputs
  /\ parsed = Pending
  /\ content = NoDocument
  /\ errors = <<>>
  /\ warnings = <<>>
  /\ outcome = Pending
  /\ calls = 0
  /\ args = <<>>
  /\ result = Pending
  /\ backend = <<>>
  /\ files = <<>>

ParseTrendExpr ==
  /\ pc = "trend_expr"
  /\ parsed' = parse_trend_expr(<<"t", "1">>, expr)
  /\ pc' = "trend_done"
  /\ UNCHANGED <<content, errors, warnings, outcome, calls, expr, args, result, backend, files>>

SpecTrend == InitTrend /\ [][ParseTrendExpr]_vars

TrendParsed == pc = "trend_done" /\ ~Raised(parsed)

\* number of commas in a text
Commas(s) == Cardinality({i \in 1..Len(s) : s[i] = ","})

\* the operator name an expression text starts with: the text before "("
WrittenOp(s) == SubSeq(s, 1, Min({i \in 1..Len(s) : s[i] = "("}) - 1)

(***************************************************************************)
(* Claims about trend expressions, under SpecTrend.                        *)
(***************************************************************************)
Comparators == {<<"<">>, <<">">>, <<"<", "=">>, <<">", "=">>, <<"=", "=">>, <<"!", "=">>}

\* C4: an expression of an operator other than last that gives no window is
\* rejected, and no parsed TrendExpr has an operator other than last together
\* with an absent window.
C4_WindowRequired ==
  /\ (pc = "trend_done" /\ WrittenOp(expr) # <<"l", "a", "s", "t">> /\ Commas(expr) = 0) => Raised(parsed)
  /\ TrendParsed => (ValueOf(parsed).operator = <<"l", "a", "s", "t">> \/ ValueOf(parsed).window # <<>>)

\* C5: a percentile expression without a percentile argument is rejected, one
\* with a third positional argument is accepted, and no parsed percentile
\* TrendExpr comes from a text without that argument.
C5_PercentileArgument ==
  /\ (pc = "trend_done" /\ WrittenOp(expr) = <<"p", "e", "r", "c", "e", "n", "t", "i", "l", "e">> /\ Commas(expr) < 2) => Raised(parsed)
  /\ (pc = "trend_done" /\ expr = <<"p", "e", "r", "c", "e", "n", "t", "i", "l", "e", "(", "C", "r", ",", "6", "h", ",", "5", "0", ")", ">", "5">>) => ~Raised(parsed)
  /\ (TrendParsed /\ ValueOf(parsed).operator = <<"p", "e", "r", "c", "e", "n", "t", "i", "l", "e">>) => Commas(expr) = 2

\* C6: a parsed TrendExpr with a comparator has one of the six comparators
\* <, >, <=, >=, ==, != and a threshold; it has a threshold iff it has a
\* comparator.
C6_SixComparators ==
  TrendParsed =>
    /\ (ValueOf(parsed).comparator # <<>> => ValueOf(parsed).comparator \in Comparators)
    /\ (ValueOf(parsed).threshold # <<>> <=> ValueOf(parsed).comparator # <<>>)

\* C7: every WindowSpec of a parsed trend has a magnitude > 0 and a unit among
\* s, m, h, d.
C7_WindowPositive ==
  (TrendParsed /\ ValueOf(parsed).window # <<>>) =>
    /\ ValueOf(parsed).window[1].value > 0
    /\ ValueOf(parsed).window[1].unit \in UnitChars

(***************************************************************************)
(* Logic expressions.                                                      *)
(***************************************************************************)
upper(s) ==
  [k \in 1..Len(s) |->
     IF \E j \in 1..Len(LowerSeq) : LowerSeq[j] = s[k]
     THEN UpperSeq[CHOOSE j \in 1..Len(LowerSeq) : LowerSeq[j] = s[k]]
     ELSE s[k]]

\* \b at position i: exactly one of the characters before and at i is a word character
WordBoundary(s, i) == (At(s, i - 1) \in WordChars) # (At(s, i) \in WordChars)

LogicKeywords == <<<<"A", "N", "D">>, <<"O", "R">>, <<"N", "O", "T">>>>

\* the pattern compiled without re.IGNORECASE
KeywordFitsCaseSensitive(s, i, kw) ==
  /\ i + Len(kw) - 1 <= Len(s)
  /\ SubSeq(s, i, i + Len(kw) - 1) = kw
  /\ WordBoundary(s, i + Len(kw))

\* one alternative of (AND|OR|NOT) under re.IGNORECASE at i, followed by \b
KeywordFits(s, i, kw) ==
  /\ i + Len(kw) - 1 <= Len(s)
  /\ upper(SubSeq(s, i, i + Len(kw) - 1)) = kw
  /\ WordBoundary(s, i + Len(kw))

\* LOGIC_OPERATOR_PATTERN = \b(AND|OR|NOT)\b at position i: the position after
\* the match, 0 when there is none
OperatorEnd(s, i) ==
  IF ~WordBoundary(s, i) THEN 0
  ELSE IF KeywordFits(s, i, LogicKeywords[1]) THEN i + Len(LogicKeywords[1])
  ELSE IF KeywordFits(s, i, LogicKeywords[2]) THEN i + Len(LogicKeywords[2])
  ELSE IF KeywordFits(s, i, LogicKeywords[3]) THEN i + Len(LogicKeywords[3])
  ELSE 0

RECURSIVE OperatorFindall(_, _)
\* LOGIC_OPERATOR_PATTERN.findall(expr), scanning from i
OperatorFindall(s, i) ==
  IF i > Len(s) THEN <<>>
  ELSE IF OperatorEnd(s, i) = 0 THEN OperatorFindall(s, i + 1)
  ELSE <<SubSeq(s, i, OperatorEnd(s, i) - 1)>> \o OperatorFindall(s, OperatorEnd(s, i))

RECURSIVE OperatorSub(_, _)
\* LOGIC_OPERATOR_PATTERN.sub(" ", expr), scanning from i
OperatorSub(s, i) ==
  IF i > Len(s) THEN <<>>
  ELSE IF OperatorEnd(s, i) = 0 THEN <<s[i]>> \o OperatorSub(s, i + 1)
  ELSE <<" ">> \o OperatorSub(s, OperatorEnd(s, i))

\* LOGIC_TERM_PATTERN = \b(\w+)\b at position i: the position after the match, 0
\* when there is none
TermEnd(s, i) ==
  IF WordBoundary(s, i) /\ At(s, i) \in WordChars /\ WordBoundary(s, Span(s, i, WordChars))
  THEN Span(s, i, WordChars)
  ELSE 0

RECURSIVE TermFindallBlankSeparated(_, _)
\* terms as the maximal runs of characters other than blanks
TermFindallBlankSeparated(s, i) ==
  IF i > Len(s) THEN <<>>
  ELSE IF s[i] = " " THEN TermFindallBlankSeparated(s, i + 1)
  ELSE <<SubSeq(s, i, Span(s, i, {s[k] : k \in 1..Len(s)} \ {" "}) - 1)>>
       \o TermFindallBlankSeparated(s, Span(s, i, {s[k] : k \in 1..Len(s)} \ {" "}))

RECURSIVE TermFindall(_, _)
\* LOGIC_TERM_PATTERN.findall(text), scanning from i
TermFindall(s, i) ==
  IF i > Len(s) THEN <<>>
  ELSE IF TermEnd(s, i) = 0 THEN TermFindall(s, i + 1)
  ELSE <<SubSeq(s, i, TermEnd(s, i) - 1)>> \o TermFindall(s, TermEnd(s, i))


\* returns <<terms, operators>>
parse_logic_expr(name, e) ==
  <<TermFindall(OperatorSub(e, 1), 1), [k \in 1..Len(OperatorFindall(e, 1)) |-> upper(OperatorFindall(e, 1)[k])]>>

(***************************************************************************)
(* The logic-expression parser on its own.                                 *)
(***************************************************************************)
MaxPieces == 4

RECURSIVE Texts(_)
\* the texts made of at most n pieces: terms, keywords in several letter cases,
\* parentheses, blanks
Texts(n) ==
  IF n = 0 THEN {<<>>}
  ELSE Texts(n - 1) \cup
       {x \o y : x \in Texts(n - 1),
                 y \in {<<"a">>, <<"t", "1", " ">>, <<" ">>, <<"(">>, <<")">>, <<"A", "N", "D">>, <<" ", "a", "n", "d", " ">>, <<"O", "r", " ">>, <<"N", "O", "T">>, <<"n", "O", "t", " ">>, <<"_">>}}


InitLogic ==
  /\ pc = "logic_expr"
  /\ expr \in Texts(MaxPieces)
  /\ parsed = Pending
  /\ content = NoDocument
  /\ errors = <<>>
  /\ warnings = <<>>
  /\ outcome = Pending
  /\ calls = 0
  /\ args = <<>>
  /\ result = Pending
  /\ backend = <<>>
  /\ files = <<>>

ParseLogicExpr ==
  /\ pc = "logic_expr"
  /\ parsed' = Return(parse_logic_expr(<<"r", "1">>, expr))
  /\ pc' = "logic_done"
  /\ UNCHANGED <<content, errors, warnings, outcome, calls, expr, args, result, backend, files>>

SpecLogic == InitLogic /\ [][ParseLogicExpr]_vars

(***************************************************************************)
(* Claims about logic expressions, under SpecLogic.                        *)
(***************************************************************************)
\* the word tokens of a text: its maximal runs of word characters, in order
TokenStarts(s) == {i \in 1..Len(s) : s[i] \in WordChars /\ At(s, i - 1) \notin WordChars}
NthStart(s, k) ==
  CHOOSE i \in TokenStarts(s) : Cardinality({j \in TokenStarts(s) : j < i}) = k - 1
TokenFrom(s, i) ==
  SubSeq(s, i, Min({j \in i..Len(s) : At(s, j + 1) \notin WordChars}))
WordTokens(s) ==
  [k \in 1..Cardinality(TokenStarts(s)) |-> TokenFrom(s, NthStart(s, k))]

\* every spelling of and, or, not in any letter case
KeywordSpellings ==
  {<<a, b, c>> : a \in {"A", "a"}, b \in {"N", "n"}, c \in {"D", "d"}}
  \cup {<<a, b>> : a \in {"O", "o"}, b \in {"R", "r"}}
  \cup {<<a, b, c>> : a \in {"N", "n"}, b \in {"O", "o"}, c \in {"T", "t"}}
IsKeyword(tok) == tok \in KeywordSpellings
IsTerm(tok) == tok \notin KeywordSpellings

LogicTerms == ValueOf(parsed)[1]
LogicOperators == ValueOf(parsed)[2]

\* C9: the operators are the AND/OR/NOT word tokens of the text in source order,
\* upper-cased; the terms are the other word tokens in source order, duplicates
\* kept; no keyword is a term; terms and operators together are all the tokens.
C9_LogicExtraction ==
  pc = "logic_done" =>
    /\ Len(LogicOperators) = Len(SelectSeq(WordTokens(expr), IsKeyword))
    /\ \A k \in 1..Len(LogicOperators) :
         /\ LogicOperators[k] \in {LogicKeywords[j] : j \in 1..Len(LogicKeywords)}
         /\ LogicOperators[k] = upper(SelectSeq(WordTokens(expr), IsKeyword)[k])
    /\ LogicTerms = SelectSeq(WordTokens(expr), IsTerm)
    /\ \A k \in 1..Len(LogicTerms) : ~IsKeyword(LogicTerms[k])
    /\ Len(LogicTerms) + Len(LogicOperators) = Len(WordTokens(expr))

\* a lower-case keyword between two occurrences of the same term
C9_Witness ==
  /\ pc = "logic_done"
  /\ expr = <<"a", " ", "a", "n", "d", " ", "a">>
  /\ LogicTerms = <<<<"a">>, <<"a">>>>
  /\ LogicOperators = <<LogicKeywords[1]>>

(***************************************************************************)
(* Documents: what yaml.safe_load returns.  A mapping is the sequence of   *)
(* its <<key, value>> pairs in document order; the top-level mapping is a  *)
(* record over the ten section keys in which Absent marks a missing key.   *)
(***************************************************************************)
Str(x) == [t |-> "str", v |-> x]
Num(n) == [t |-> "num", v |-> <<n>>]
Null == [t |-> "null", v |-> <<>>]
List(xs) == [t |-> "list", v |-> xs]
Dict(pairs) == [t |-> "dict", v |-> pairs]
Absent == [t |-> "absent", v |-> <<>>]

\* key in d
Has(d, key) == \E k \in 1..Len(d.v) : d.v[k][1] = key
\* d.get(key, default)
GetOr(d, key, default) ==
  IF Has(d, key) THEN d.v[CHOOSE k \in 1..Len(d.v) : d.v[k][1] = key][2] ELSE default
\* d.get(key)
Get(d, key) == GetOr(d, key, Null)
\* data.get(field) on the top-level mapping
TopGet(data, field) == IF data[field].t = "absent" THEN Null ELSE data[field]

\* bool(value) is False
Falsy(x) == x.t = "null" \/ (x.t = "num" /\ x.v = <<0>>) \/ (x.t # "num" /\ x.v = <<>>)


(***************************************************************************)
(* The IR classes (ir.py).                                                 *)
(***************************************************************************)
DomainValues == {"measurement", "observation", "condition", "drug", "procedure"}
SeverityValues == {"low", "medium", "high", "critical"}
\* Domain(value) and Severity(value) raise ValueError
NotInEnum(x, values) == ~(x.t = "str" /\ Len(x.v) = 1 /\ x.v[1] \in values)

Signal(name, source, concept_id, unit, domain) ==
  [name |-> name, source |-> source, concept_id |-> concept_id, unit |-> unit,
   domain |-> domain]
LogicExpr(name, e, terms, operators, severity, description) ==
  [name |-> name, expr |-> e, terms |-> terms, operators |-> operators,
   severity |-> severity, description |-> description]
\* the names (keys) of a mapping of signals, trends or logic rules
Names(items) == {items[k].name : k \in 1..Len(items)}

(***************************************************************************)
(* Section parsers.  A parser that appends to self.warnings takes the list *)
(* and gives it back, also when it raises.                                 *)
(***************************************************************************)
ReturnW(v, w) == [exc |-> "none", msg |-> <<>>, val |-> <<v>>, warnings |-> w]
RaiseW(kind, m, w) == [exc |-> kind, msg |-> m, val |-> <<>>, warnings |-> w]

require_field(data, field, expected_type) ==
  IF data[field].t = "absent"
  THEN Raise("PSDLParseError", <<"Missing required field", field>>)
  ELSE IF data[field].t # expected_type
  THEN Raise("PSDLParseError", <<"Field must be", field, expected_type, data[field].t>>)
  ELSE Return(data[field])

parse_population(data) ==
  IF data.t = "null" THEN Return(<<>>)
  ELSE IF data.t # "dict" THEN Raise("AttributeError", <<"get", data.t>>)
  ELSE Return(<<[include |-> GetOr(data, "include", List(<<>>)),
                 exclude |-> GetOr(data, "exclude", List(<<>>))]>>)

parse_audit(data) ==
  IF data.t = "null" THEN Return(<<>>)
  ELSE IF data.t # "dict" THEN Raise("AttributeError", <<"get", data.t>>)
  ELSE IF Falsy(Get(data, "intent")) \/ Falsy(Get(data, "rationale"))
          \/ Falsy(Get(data, "provenance"))
  THEN Raise("PSDLParseError", <<"Audit block requires 'intent', 'rationale', and 'provenance'">>)
  ELSE Return(<<[intent |-> Get(data, "intent"), rationale |-> Get(data, "rationale"),
                 provenance |-> Get(data, "provenance")]>>)


RECURSIVE parse_transitions(_, _, _)
\* the loop of lines 177-183 from entry i
parse_transitions(ts, i, transitions) ==
  IF i > Len(ts) THEN Return(transitions)
  ELSE IF ts[i].t \in {"num", "null"} THEN Raise("TypeError", <<"not iterable", ts[i].t>>)
  ELSE IF ~(ts[i].t = "dict" /\ Has(ts[i], "from") /\ Has(ts[i], "to") /\ Has(ts[i], "when"))
  THEN Raise("PSDLParseError", <<"State transition requires 'from', 'to', and 'when'">>)
  ELSE parse_transitions(ts, i + 1,
         Append(transitions,
                [from_state |-> Get(ts[i], "from"), to_state |-> Get(ts[i], "to"),
                 when |-> Get(ts[i], "when")]))

parse_state(data) ==
  IF data.t = "null" THEN Return(<<>>)
  ELSE IF data.t # "dict" THEN Raise("AttributeError", <<"get", data.t>>)
  ELSE IF GetOr(data, "transitions", List(<<>>)).t \in {"num", "null"}
  THEN Raise("TypeError", <<"not iterable", Get(data, "transitions").t>>)
  ELSE LET transitions == parse_transitions(GetOr(data, "transitions", List(<<>>)).v, 1, <<>>)
       IN IF Raised(transitions) THEN transitions
          ELSE Return(<<[initial |-> Get(data, "initial"),
                         states |-> GetOr(data, "states", List(<<>>)),
                         transitions |-> ValueOf(transitions)]>>)

\* signals[name] = ... / logic[name] = ...: the entry joins the mapping built so far
AppendEntry(acc, r) ==
  IF Raised(r) THEN r ELSE ReturnW(Append(ValueOf(acc), ValueOf(r)), r.warnings)
\* the unknown-domain branch made fatal
SignalFromDictStrict(name, spec, w) ==
  IF Falsy(Get(spec, "source"))
  THEN RaiseW("PSDLParseError", <<"Signal missing 'source'", name>>, w)
  ELSE IF Has(spec, "domain") /\ NotInEnum(Get(spec, "domain"), DomainValues)
  THEN RaiseW("PSDLParseError", <<"Unknown domain", Get(spec, "domain"), name>>, w)
  ELSE ReturnW(Signal(name, Get(spec, "source"), Get(spec, "concept_id"), Get(spec, "unit"),
                      IF Has(spec, "domain") THEN Get(spec, "domain").v[1] ELSE "measurement"),
               w)

\* lines 195-215: one signal given as a mapping
SignalFromDict(name, spec, w) ==
  IF Falsy(Get(spec, "source"))
  THEN RaiseW("PSDLParseError", <<"Signal missing 'source'", name>>, w)
  ELSE IF Has(spec, "domain") /\ NotInEnum(Get(spec, "domain"), DomainValues)
  THEN ReturnW(Signal(name, Get(spec, "source"), Get(spec, "concept_id"), Get(spec, "unit"),
                      "measurement"),
               Append(w, <<"Unknown domain", Get(spec, "domain"), name>>))
  ELSE ReturnW(Signal(name, Get(spec, "source"), Get(spec, "concept_id"), Get(spec, "unit"),
                      IF Has(spec, "domain") THEN Get(spec, "domain").v[1] ELSE "measurement"),
               w)

\* lines 192-217: one entry of signals
SignalEntry(name, spec, w) ==
  IF spec.t = "str" THEN ReturnW(Signal(name, spec, Null, Null, "measurement"), w)
  ELSE IF spec.t = "dict" THEN SignalFromDict(name, spec, w)
  ELSE RaiseW("PSDLParseError", <<"Invalid signal specification", name>>, w)

\* lines 268-280: one entry of trends; str.strip exists on strings only
TrendEntry(name, spec) ==
  IF spec.t = "str" THEN parse_trend_expr(name, spec.v)
  ELSE IF spec.t # "dict" THEN Raise("PSDLParseError", <<"Invalid trend specification", name>>)
  ELSE IF Falsy(Get(spec, "expr")) THEN Raise("PSDLParseError", <<"Trend missing 'expr'", name>>)
  ELSE IF Get(spec, "expr").t # "str" THEN Raise("AttributeError", <<"strip", Get(spec, "expr").t>>)
  ELSE parse_trend_expr(name, Get(spec, "expr").v)

\* trend.description = spec.get("description")
WithDescription(r, spec) ==
  IF Raised(r) \/ spec.t # "dict" THEN r
  ELSE Return([ValueOf(r) EXCEPT !.description = Get(spec, "description")])

\* lines 312-328: a logic rule given as a mapping; the patterns take strings only
LogicFromDict(name, spec, w) ==
  IF Falsy(Get(spec, "expr")) THEN RaiseW("PSDLParseError", <<"Logic missing 'expr'", name>>, w)
  ELSE IF Get(spec, "expr").t # "str"
  THEN RaiseW("TypeError", <<"expected string or bytes-like object", Get(spec, "expr").t>>, w)
  ELSE IF Has(spec, "severity") /\ NotInEnum(Get(spec, "severity"), SeverityValues)
  THEN ReturnW(LogicExpr(name, Get(spec, "expr").v,
                         parse_logic_expr(name, Get(spec, "expr").v)[1],
                         parse_logic_expr(name, Get(spec, "expr").v)[2],
                         <<>>, Get(spec, "description")),
               Append(w, <<"Unknown severity", Get(spec, "severity"), name>>))
  ELSE ReturnW(LogicExpr(name, Get(spec, "expr").v,
                         parse_logic_expr(name, Get(spec, "expr").v)[1],
                         parse_logic_expr(name, Get(spec, "expr").v)[2],
                         IF Has(spec, "severity") THEN <<Get(spec, "severity").v[1]>> ELSE <<>>,
                         Get(spec, "description")),
               w)

\* lines 301-330: one entry of logic
LogicEntry(name, spec, w) ==
  IF spec.t = "str"
  THEN ReturnW(LogicExpr(name, spec.v, parse_logic_expr(name, spec.v)[1],
                         parse_logic_expr(name, spec.v)[2], <<>>, Null), w)
  ELSE IF spec.t = "dict" THEN LogicFromDict(name, spec, w)
  ELSE RaiseW("PSDLParseError", <<"Invalid logic specification", name>>, w)

RECURSIVE parse_signals_loop(_, _, _)
\* the loop of _parse_signals from entry i; acc is the result so far
parse_signals_loop(items, i, acc) ==
  IF Raised(acc) \/ i > Len(items) THEN acc
  ELSE parse_signals_loop(items, i + 1,
                          AppendEntry(acc, SignalEntry(items[i][1], items[i][2], acc.warnings)))

RECURSIVE parse_logic_loop(_, _, _)
\* the loop of _parse_logic from entry i
parse_logic_loop(items, i, acc) ==
  IF Raised(acc) \/ i > Len(items) THEN acc
  ELSE parse_logic_loop(items, i + 1,
                        AppendEntry(acc, LogicEntry(items[i][1], items[i][2], acc.warnings)))

RECURSIVE parse_trends_loop(_, _, _)
\* the loop of _parse_trends from entry i
parse_trends_loop(items, i, acc) ==
  IF Raised(acc) \/ i > Len(items) THEN acc
  ELSE LET r == WithDescription(TrendEntry(items[i][1], items[i][2]), items[i][2])
       IN parse_trends_loop(items, i + 1,
                            IF Raised(r) THEN r ELSE Return(Append(ValueOf(acc), ValueOf(r))))

\* data.items() exists on mappings only
parse_trends(data) ==
  IF data.t # "dict" THEN Raise("AttributeError", <<"items", data.t>>)
  ELSE parse_trends_loop(data.v, 1, Return(<<>>))

(***************************************************************************)
(* PSDLScenario and its semantic validation (ir.py).                       *)
(***************************************************************************)
PSDLScenario(st) ==
  [name |-> st.name, version |-> st.version, description |-> st.description,
   population |-> st.population, signals |-> st.signals, trends |-> st.trends,
   logic |-> st.logic, audit |-> st.audit, state |-> st.state, mapping |-> st.mapping]

Violation(kind, owner, ref) == [kind |-> kind, owner |-> owner, ref |-> ref]

RECURSIVE Flatten(_)
\* the concatenation of a sequence of sequences
Flatten(ss) == IF ss = <<>> THEN <<>> ELSE Head(ss) \o Flatten(Tail(ss))

\* the logic rules that the rules of R name as terms
Referenced(s, R) ==
  UNION {{s.logic[k].terms[j] : j \in 1..Len(s.logic[k].terms)} :
           k \in {i \in 1..Len(s.logic) : s.logic[i].name \in R}}
  \cap Names(s.logic)

RECURSIVE ReachableIn(_, _, _)
\* the rules reachable from those of R along at most n further references
ReachableIn(s, R, n) ==
  IF n = 0 THEN R ELSE ReachableIn(s, R \cup Referenced(s, R), n - 1)


\* every trend's signal must exist
SignalErrors(s) ==
  SelectSeq([k \in 1..Len(s.trends) |->
               Violation("unknown signal", s.trends[k].name, Str(s.trends[k].signal))],
            LAMBDA e : e.ref.v \notin Names(s.signals))

\* every logic term must resolve to a trend or another logic rule
TermErrors(s) ==
  SelectSeq(Flatten([k \in 1..Len(s.logic) |->
                       [j \in 1..Len(s.logic[k].terms) |->
                          Violation("unknown term", s.logic[k].name, Str(s.logic[k].terms[j]))]]),
            LAMBDA e : e.ref.v \notin Names(s.trends) \cup Names(s.logic))

\* cyclic logic references are invalid
CycleErrors(s) ==
  SelectSeq([k \in 1..Len(s.logic) |->
               Violation("cyclic logic", s.logic[k].name, Str(s.logic[k].name))],
            LAMBDA e : e.owner \in ReachableIn(s, Referenced(s, {e.owner}), Len(s.logic)))

\* value x is one of the declared states
Declared(sm, x) ==
  sm.states.t = "list" /\ \E k \in 1..Len(sm.states.v) : (sm.states.v[k].t = x.t /\ sm.states.v[k].v = x.v)

TransitionErrors(s, sm) ==
  Flatten([k \in 1..Len(sm.transitions) |->
     (IF Declared(sm, sm.transitions[k].from_state) THEN <<>>
      ELSE <<Violation("undeclared from state", <<>>, sm.transitions[k].from_state)>>)
     \o (IF Declared(sm, sm.transitions[k].to_state) THEN <<>>
         ELSE <<Violation("undeclared to state", <<>>, sm.transitions[k].to_state)>>)
     \o (IF sm.transitions[k].when.t = "str" /\ sm.transitions[k].when.v \in Names(s.logic) THEN <<>>
         ELSE <<Violation("unknown guard", <<>>, sm.transitions[k].when)>>)])

\* initial and every transition endpoint must be a declared state; every guard
\* must name a logic rule
StateErrors(s) ==
  IF s.state = <<>> THEN <<>>
  ELSE (IF Declared(s.state[1], s.state[1].initial) THEN <<>>
        ELSE <<Violation("undeclared initial state", <<>>, s.state[1].initial)>>)
       \o TransitionErrors(s, s.state[1])

\* PSDLScenario.validate(): all violations, collected
validate(s) == SignalErrors(s) \o TermErrors(s) \o CycleErrors(s) \o StateErrors(s)

(***************************************************************************)
(* parse_string.  The sections are parsed in the order of the code; `st`   *)
(* holds the locals parsed so far and, once a section raised, the          *)
(* exception, after which the later sections are skipped.                  *)
(***************************************************************************)
Locals ==
  [exc |-> "none", msg |-> <<>>, sections |-> <<>>, warnings |-> <<>>,
   name |-> Null, version |-> Null, description |-> Null, population |-> <<>>,
   signals |-> <<>>, trends |-> <<>>, logic |-> <<>>, audit |-> <<>>, state |-> <<>>,
   mapping |-> Null]

\* the local `field` takes the result r of a section, or the exception is raised
Bind(st, field, r) ==
  IF Raised(r) THEN [st EXCEPT !.exc = r.exc, !.msg = r.msg]
  ELSE [st EXCEPT ![field] = ValueOf(r), !.sections = Append(@, field)]
\* the same for a section that appends to self.warnings
BindW(st, field, r) ==
  IF Raised(r) THEN [st EXCEPT !.exc = r.exc, !.msg = r.msg, !.warnings = r.warnings]
  ELSE [st EXCEPT ![field] = ValueOf(r), !.sections = Append(@, field),
                  !.warnings = r.warnings]

\* lines 87-90
StPopulation(data, st) ==
  IF Raised(st) THEN st
  ELSE Bind([st EXCEPT !.description = TopGet(data, "description")], "population",
            parse_population(TopGet(data, "population")))
\* lines 93-94
StSignals(data, st) ==
  IF Raised(st) THEN st
  ELSE IF Raised(require_field(data, "signals", "dict"))
  THEN Bind(st, "signals", require_field(data, "signals", "dict"))
  ELSE BindW(st, "signals", parse_signals_loop(data.signals.v, 1, ReturnW(<<>>, st.warnings)))
\* lines 97-98: data.get("trends", {})
StTrends(data, st) ==
  IF Raised(st) THEN st
  ELSE Bind(st, "trends",
            parse_trends(IF data.trends.t = "absent" THEN Dict(<<>>) ELSE data.trends))
\* lines 101-102
StLogic(data, st) ==
  IF Raised(st) THEN st
  ELSE IF Raised(require_field(data, "logic", "dict"))
  THEN Bind(st, "logic", require_field(data, "logic", "dict"))
  ELSE BindW(st, "logic", parse_logic_loop(data.logic.v, 1, ReturnW(<<>>, st.warnings)))
\* line 105
StAudit(data, st) ==
  IF Raised(st) THEN st ELSE Bind(st, "audit", parse_audit(TopGet(data, "audit")))
\* lines 108-111
StState(data, st) ==
  IF Raised(st) THEN st
  ELSE [Bind(st, "state", parse_state(TopGet(data, "state")))
          EXCEPT !.mapping = TopGet(data, "mapping")]

\* What a call leaves: the exception or the returned scenario, the scenario
\* built (if parsing got that far), the sections parsed, self.errors and
\* self.warnings.
Result(exc, m, st, built, errs) ==
  [exc |-> exc, msg |-> m, val |-> IF exc = "none" THEN built ELSE <<>>,
   built |-> built, sections |-> st.sections, errors |-> errs, warnings |-> st.warnings]

\* validation errors do not stop the call
FinishIgnoringErrors(st) ==
  IF Raised(st) THEN Result(st.exc, st.msg, st, <<>>, <<>>)
  ELSE Result("none", <<>>, st, <<PSDLScenario(st)>>, validate(PSDLScenario(st)))

\* only the first validation error is put in the message
FinishFirstErrorOnly(st) ==
  IF Raised(st) THEN Result(st.exc, st.msg, st, <<>>, <<>>)
  ELSE IF validate(PSDLScenario(st)) # <<>>
  THEN Result("PSDLParseError", <<"Validation errors", <<validate(PSDLScenario(st))[1]>>>>,
              st, <<PSDLScenario(st)>>, validate(PSDLScenario(st)))
  ELSE Result("none", <<>>, st, <<PSDLScenario(st)>>, <<>>)

\* the scenario is validated before its state machine is attached
FinishStateUnchecked(st) ==
  IF Raised(st) THEN Result(st.exc, st.msg, st, <<>>, <<>>)
  ELSE IF validate(PSDLScenario([st EXCEPT !.state = <<>>])) # <<>>
  THEN Result("PSDLParseError",
              <<"Validation errors", validate(PSDLScenario([st EXCEPT !.state = <<>>]))>>,
              st, <<PSDLScenario(st)>>, validate(PSDLScenario([st EXCEPT !.state = <<>>])))
  ELSE Result("none", <<>>, st, <<PSDLScenario(st)>>, <<>>)

\* lines 113-134: build the scenario, validate it, raise or return
Finish(st) ==
  IF Raised(st) THEN Result(st.exc, st.msg, st, <<>>, <<>>)
  ELSE IF validate(PSDLScenario(st)) # <<>>
  THEN Result("PSDLParseError", <<"Validation errors", validate(PSDLScenario(st))>>,
              st, <<PSDLScenario(st)>>, validate(PSDLScenario(st)))
  ELSE Result("none", <<>>, st, <<PSDLScenario(st)>>, <<>>)

\* lines 74-134, after self.errors and self.warnings were reset
parse_string(c) ==
  IF c.t = "invalid" THEN Result("PSDLParseError", <<"Invalid YAML">>, Locals, <<>>, <<>>)
  ELSE IF c.t # "dict"
  THEN Result("PSDLParseError", <<"PSDL document must be a YAML mapping">>, Locals, <<>>, <<>>)
  ELSE LET named == Bind(Locals, "name", require_field(c.v, "scenario", "str"))
           versioned == IF Raised(named) THEN named
                        ELSE Bind(named, "version", require_field(c.v, "version", "str"))
       IN Finish(StState(c.v, StAudit(c.v, StLogic(c.v, StTrends(c.v, StSignals(c.v,
                   StPopulation(c.v, versioned)))))))

(***************************************************************************)
(* One parser instance and the documents given to it.                      *)
(***************************************************************************)
MaxCalls == 2

\* a well-formed document
Base ==
  [scenario |-> Str(<<"AKI_Detection">>),
   version |-> Str(<<"0.1.0">>),
   description |-> Absent,
   population |-> Absent,
   signals |-> Dict(<<<<<<"C", "r">>, Str(<<"creatinine">>)>>>>),
   trends |-> Dict(<<<<<<"t", "1">>, Str(<<"d", "e", "l", "t", "a", "(", "C", "r", ",", " ", "6", "h", ")", " ", ">", " ", "0", ".", "3">>)>>>>),
   logic |-> Dict(<<<<<<"r", "1">>, Str(<<"t", "1">>)>>>>),
   audit |-> Absent,
   state |-> Absent,
   mapping |-> Absent]

Options ==
  [scenario |->
     {Absent,
      Num(1)},
   version |->
     {Absent,
      Num(1)},
   description |->
     {Str(<<"text">>)},
   population |->
     {Dict(<<<<"include", List(<<Str(<<"adults">>)>>)>>>>),
      Str(<<"adults">>),
      List(<<Str(<<"adults">>)>>)},
   signals |->
     {Absent,
      List(<<Str(<<"Cr">>)>>),
      Dict(<<<<<<"C", "r">>, Dict(<<<<"source", Str(<<"creatinine">>)>>, <<"domain", Str(<<"observation">>)>>, <<"unit", Str(<<"mg/dL">>)>>>>)>>>>),
      Dict(<<<<<<"C", "r">>, Dict(<<<<"source", Str(<<"creatinine">>)>>, <<"domain", Str(<<"labs">>)>>>>)>>>>),
      Dict(<<<<<<"C", "r">>, Dict(<<<<"source", Str(<<"creatinine">>)>>, <<"domain", Str(<<"labs">>)>>>>)>>, <<<<"H", "R">>, Dict(<<<<"source", Str(<<"heart_rate">>)>>, <<"domain", Str(<<"vitals">>)>>>>)>>>>),
      Dict(<<<<<<"C", "r">>, Dict(<<<<"unit", Str(<<"mg/dL">>)>>>>)>>>>),
      Dict(<<<<<<"C", "r">>, Num(5)>>>>),
      Dict(<<<<<<"C", "r">>, Dict(<<<<"source", Str(<<"creatinine">>)>>, <<"domain", Str(<<"labs">>)>>>>)>>, <<<<"H", "R">>, Num(5)>>>>),
      Dict(<<<<<<"H", "R">>, Str(<<"heart_rate">>)>>>>)},
   trends |->
     {Absent,
      Null,
      Dict(<<>>),
      Dict(<<<<<<"t", "1">>, Str(<<"d", "e", "l", "t", "a", "(", "X", "x", ",", " ", "6", "h", ")", " ", ">", " ", "0", ".", "3">>)>>>>),
      Dict(<<<<<<"t", "1">>, Str(<<"d", "e", "l", "t", "a", "(", "X", "x", ",", " ", "6", "h", ")", " ", ">", " ", "0", ".", "3">>)>>, <<<<"t", "2">>, Str(<<"l", "a", "s", "t", "(", "Y", "y", ")", " ", ">", " ", "1", "0", "0">>)>>>>),
      Dict(<<<<<<"t", "1">>, Str(<<"d", "e", "l", "t", "a", "(", "C", "r">>)>>>>),
      Dict(<<<<<<"t", "1">>, Dict(<<<<"expr", Str(<<"s", "l", "o", "p", "e", "(", "C", "r", ",", " ", "1", "d", ")", " ", ">", "=", " ", "0">>)>>, <<"description", Str(<<"text">>)>>>>)>>>>),
      Dict(<<<<<<"t", "1">>, Dict(<<<<"description", Str(<<"text">>)>>>>)>>>>),
      Dict(<<<<<<"t", "1">>, Dict(<<<<"expr", Num(5)>>>>)>>>>),
      Dict(<<<<<<"t", "1">>, Num(5)>>>>),
      Dict(<<<<<<"t", "1">>, Str(<<"s", "m", "a", "(", "C", "r", ",", " ", "3", "0", "m", ")">>)>>, <<<<"t", "2">>, Str(<<"c", "o", "u", "n", "t", "(", "C", "r", ",", " ", "6", "h", ")", " ", ">", " ", "0">>)>>>>)},
   logic |->
     {Absent,
      List(<<Str(<<"r1">>)>>),
      Dict(<<>>),
      Dict(<<<<<<"r", "1">>, Str(<<"t", "1", " ", "A", "N", "D", " ", "z", "z">>)>>>>),
      Dict(<<<<<<"r", "1">>, Str(<<"z", "z", " ", "O", "R", " ", "y", "y">>)>>, <<<<"r", "2">>, Str(<<"N", "O", "T", " ", "x", "x">>)>>>>),
      Dict(<<<<<<"r", "1">>, Str(<<"t", "1">>)>>, <<<<"r", "2">>, Str(<<"r", "1", " ", "O", "R", " ", "t", "1">>)>>>>),
      Dict(<<<<<<"r", "1">>, Str(<<"r", "2">>)>>, <<<<"r", "2">>, Str(<<"r", "1">>)>>>>),
      Dict(<<<<<<"r", "1">>, Str(<<"N", "O", "T", " ", "r", "1">>)>>>>),
      Dict(<<<<<<"r", "1">>, Str(<<"t", "1", " ", "A", "N", "D", " ", "r", "2">>)>>, <<<<"r", "2">>, Str(<<"t", "1", " ", "o", "r", " ", "r", "1">>)>>>>),
      Dict(<<<<<<"r", "1">>, Str(<<"r", "2">>)>>, <<<<"r", "2">>, Str(<<"r", "3", " ", "A", "N", "D", " ", "t", "1">>)>>, <<<<"r", "3">>, Str(<<"(", "r", "1", ")">>)>>>>),
      Dict(<<<<<<"r", "1">>, Dict(<<<<"expr", Str(<<"t", "1">>)>>, <<"severity", Str(<<"high">>)>>, <<"description", Str(<<"text">>)>>>>)>>>>),
      Dict(<<<<<<"r", "1">>, Dict(<<<<"expr", Str(<<"t", "1">>)>>, <<"severity", Str(<<"urgent">>)>>>>)>>>>),
      Dict(<<<<<<"r", "1">>, Dict(<<<<"severity", Str(<<"high">>)>>>>)>>>>),
      Dict(<<<<<<"r", "1">>, Num(5)>>>>),
      Dict(<<<<<<"r", "1">>, Dict(<<<<"expr", Num(5)>>>>)>>>>)},
   audit |->
     {Dict(<<<<"intent", Str(<<"i">>)>>, <<"rationale", Str(<<"r">>)>>, <<"provenance", Str(<<"p">>)>>>>),
      Dict(<<<<"intent", Str(<<"i">>)>>>>),
      Str(<<"text">>)},
   state |->
     {Dict(<<<<"initial", Str(<<"n", "o", "r", "m", "a", "l">>)>>, <<"states", List(<<Str(<<"n", "o", "r", "m", "a", "l">>), Str(<<"a", "l", "e", "r", "t">>)>>)>>, <<"transitions", List(<<Dict(<<<<"from", Str(<<"n", "o", "r", "m", "a", "l">>)>>, <<"to", Str(<<"a", "l", "e", "r", "t">>)>>, <<"when", Str(<<"r", "1">>)>>>>)>>)>>>>),
      Dict(<<<<"initial", Str(<<"u", "n", "k", "n", "o", "w", "n">>)>>, <<"states", List(<<Str(<<"n", "o", "r", "m", "a", "l">>), Str(<<"a", "l", "e", "r", "t">>)>>)>>, <<"transitions", List(<<Dict(<<<<"from", Str(<<"n", "o", "r", "m", "a", "l">>)>>, <<"to", Str(<<"a", "l", "e", "r", "t">>)>>, <<"when", Str(<<"r", "1">>)>>>>)>>)>>>>),
      Dict(<<<<"states", List(<<Str(<<"n", "o", "r", "m", "a", "l">>), Str(<<"a", "l", "e", "r", "t">>)>>)>>, <<"transitions", List(<<Dict(<<<<"from", Str(<<"n", "o", "r", "m", "a", "l">>)>>, <<"to", Str(<<"a", "l", "e", "r", "t">>)>>, <<"when", Str(<<"r", "1">>)>>>>)>>)>>>>),
      Dict(<<<<"initial", Str(<<"n", "o", "r", "m", "a", "l">>)>>, <<"states", List(<<Str(<<"n", "o", "r", "m", "a", "l">>), Str(<<"a", "l", "e", "r", "t">>)>>)>>, <<"transitions", List(<<Dict(<<<<"from", Str(<<"n", "o", "r", "m", "a", "l">>)>>, <<"to", Str(<<"g", "o", "n", "e">>)>>, <<"when", Str(<<"r", "1">>)>>>>)>>)>>>>),
      Dict(<<<<"initial", Str(<<"n", "o", "r", "m", "a", "l">>)>>, <<"states", List(<<Str(<<"n", "o", "r", "m", "a", "l">>), Str(<<"a", "l", "e", "r", "t">>)>>)>>, <<"transitions", List(<<Dict(<<<<"from", Str(<<"n", "o", "r", "m", "a", "l">>)>>, <<"to", Str(<<"a", "l", "e", "r", "t">>)>>, <<"when", Str(<<"r", "1">>)>>>>), Dict(<<<<"from", Str(<<"l", "o", "s", "t">>)>>, <<"to", Str(<<"n", "o", "r", "m", "a", "l">>)>>, <<"when", Str(<<"r", "1">>)>>>>)>>)>>>>),
      Dict(<<<<"initial", Str(<<"n", "o", "r", "m", "a", "l">>)>>, <<"states", List(<<Str(<<"n", "o", "r", "m", "a", "l">>), Str(<<"a", "l", "e", "r", "t">>)>>)>>, <<"transitions", List(<<Dict(<<<<"from", Str(<<"n", "o", "r", "m", "a", "l">>)>>, <<"to", Str(<<"a", "l", "e", "r", "t">>)>>, <<"when", Str(<<"t", "1">>)>>>>)>>)>>>>),
      Dict(<<<<"initial", Str(<<"n", "o", "r", "m", "a", "l">>)>>, <<"states", List(<<Str(<<"n", "o", "r", "m", "a", "l">>), Str(<<"a", "l", "e", "r", "t">>)>>)>>, <<"transitions", List(<<Dict(<<<<"from", Str(<<"n", "o", "r", "m", "a", "l">>)>>, <<"to", Str(<<"a", "l", "e", "r", "t">>)>>>>)>>)>>>>),
      Str(<<"normal">>),
      Dict(<<<<"initial", Str(<<"n", "o", "r", "m", "a", "l">>)>>, <<"states", List(<<Str(<<"n", "o", "r", "m", "a", "l">>), Str(<<"a", "l", "e", "r", "t">>)>>)>>, <<"transitions", List(<<Num(1)>>)>>>>),
      Dict(<<<<"initial", Str(<<"n", "o", "r", "m", "a", "l">>)>>, <<"states", List(<<Str(<<"n", "o", "r", "m", "a", "l">>), Str(<<"a", "l", "e", "r", "t">>)>>)>>, <<"transitions", Null>>>>)},
   mapping |->
     {Dict(<<<<"output", Str(<<"alerts">>)>>>>)}]


\* The documents: not YAML, YAML that is no mapping, and the mappings that
\* differ from Base in at most two sections.
Docs ==
  {[t |-> "invalid", v |-> <<>>], Null, List(<<>>)}
  \cup UNION {UNION {{Dict([[Base EXCEPT ![f] = x] EXCEPT ![g] = y]) :
                        x \in Options[f] \cup {Base[f]}, y \in Options[g] \cup {Base[g]}} :
                     g \in DOMAIN Base} :
              f \in DOMAIN Base}

\* PSDLParser()
Init ==
  /\ pc = "idle"
  /\ content = NoDocument
  /\ errors = <<>>
  /\ warnings = <<>>
  /\ outcome = Pending
  /\ calls = 0
  /\ args = <<>>
  /\ result = Pending
  /\ expr = <<>>
  /\ parsed = Pending
  /\ backend = <<>>
  /\ files = <<>>

\* parse_string without lines 71-72
CallWithoutReset(d) ==
  /\ pc = "idle"
  /\ calls < MaxCalls
  /\ pc' = "parsing"
  /\ content' = d
  /\ outcome' = Pending
  /\ calls' = calls + 1
  /\ UNCHANGED <<errors, warnings, expr, parsed, args, result, backend, files>>

\* lines 69-72: parse_string is entered with a document and resets the lists
Call(d) ==
  /\ pc = "idle"
  /\ calls < MaxCalls
  /\ pc' = "parsing"
  /\ content' = d
  /\ errors' = <<>>
  /\ warnings' = <<>>
  /\ outcome' = Pending
  /\ calls' = calls + 1
  /\ UNCHANGED <<expr, parsed, args, result, backend, files>>

\* lines 74-134: the call runs to its return or its exception
Parse ==
  /\ pc = "parsing"
  /\ pc' = "idle"
  /\ outcome' = parse_string(content)
  /\ errors' = errors \o parse_string(content).errors
  /\ warnings' = warnings \o parse_string(content).warnings
  /\ UNCHANGED <<content, calls, expr, parsed, args, result, backend, files>>


Spec == Init /\ [][(\E d \in Docs : Call(d)) \/ Parse]_vars

(***************************************************************************)
(* Claims about parse_string, under Spec.                                  *)
(***************************************************************************)
\* a call has run to its end
Done == pc = "idle" /\ calls > 0
Returned == Done /\ outcome.exc = "none"
Scenario == outcome.val[1]
Built == outcome.built[1]

\* rule r is on a reference cycle: a path of rule names from r back to r
CycleThrough(s, r) ==
  \E n \in 1..Len(s.logic) :
    \E path \in [1..(n + 1) -> Names(s.logic)] :
      /\ path[1] = r
      /\ path[n + 1] = r
      /\ \A i \in 1..n :
           \E k \in 1..Len(s.logic) :
             /\ s.logic[k].name = path[i]
             /\ \E j \in 1..Len(s.logic[k].terms) : s.logic[k].terms[j] = path[i + 1]

StateNames(sm) == {sm.states.v[k] : k \in 1..Len(sm.states.v)}

\* C1: a returned scenario is reference-closed: every trend's signal is a signal
\* of the scenario, every term of every logic rule names a trend or a logic
\* rule, and the initial state and every transition's from/to of a state machine
\* are declared states and every guard names a logic rule.
C1_ReferenceClosed ==
  Returned =>
    /\ \A k \in 1..Len(Scenario.trends) :
         \E j \in 1..Len(Scenario.signals) : Scenario.signals[j].name = Scenario.trends[k].signal
    /\ \A k \in 1..Len(Scenario.logic) : \A j \in 1..Len(Scenario.logic[k].terms) :
         \/ \E i \in 1..Len(Scenario.trends) :
              Scenario.trends[i].name = Scenario.logic[k].terms[j]
         \/ \E i \in 1..Len(Scenario.logic) :
              Scenario.logic[i].name = Scenario.logic[k].terms[j]
    /\ Scenario.state # <<>> =>
         /\ Scenario.state[1].initial \in StateNames(Scenario.state[1])
         /\ \A k \in 1..Len(Scenario.state[1].transitions) :
              /\ Scenario.state[1].transitions[k].from_state \in StateNames(Scenario.state[1])
              /\ Scenario.state[1].transitions[k].to_state \in StateNames(Scenario.state[1])
              /\ \E i \in 1..Len(Scenario.logic) :
                   Str(Scenario.logic[i].name) = Scenario.state[1].transitions[k].when

\* a scenario with trends, logic and a state machine with a transition is returned
C1_Witness ==
  /\ Returned
  /\ Scenario.trends # <<>>
  /\ Scenario.logic # <<>>
  /\ Scenario.state # <<>>
  /\ Scenario.state[1].transitions # <<>>

\* the semantic violations of a built scenario, as a set
ViolationSet(s) ==
  {Violation("unknown signal", s.trends[k].name, Str(s.trends[k].signal)) :
     k \in {i \in 1..Len(s.trends) : s.trends[i].signal \notin Names(s.signals)}}
  \cup UNION {{Violation("unknown term", s.logic[k].name, Str(s.logic[k].terms[j])) :
                 j \in {i \in 1..Len(s.logic[k].terms) :
                          s.logic[k].terms[i] \notin Names(s.trends) \cup Names(s.logic)}} :
              k \in 1..Len(s.logic)}
  \cup {Violation("cyclic logic", s.logic[k].name, Str(s.logic[k].name)) :
          k \in {i \in 1..Len(s.logic) : CycleThrough(s, s.logic[i].name)}}
  \cup (IF s.state = <<>> THEN {}
        ELSE (IF s.state[1].initial \in StateNames(s.state[1]) THEN {}
              ELSE {Violation("undeclared initial state", <<>>, s.state[1].initial)})
             \cup {Violation("undeclared from state", <<>>, s.state[1].transitions[k].from_state) :
                     k \in {i \in 1..Len(s.state[1].transitions) :
                              s.state[1].transitions[i].from_state \notin StateNames(s.state[1])}}
             \cup {Violation("undeclared to state", <<>>, s.state[1].transitions[k].to_state) :
                     k \in {i \in 1..Len(s.state[1].transitions) :
                              s.state[1].transitions[i].to_state \notin StateNames(s.state[1])}}
             \cup {Violation("unknown guard", <<>>, s.state[1].transitions[k].when) :
                     k \in {i \in 1..Len(s.state[1].transitions) :
                              \A r \in Names(s.logic) :
                                Str(r) # s.state[1].transitions[i].when}})

\* C2: a built scenario with n >= 1 semantic violations makes the call raise one
\* PSDLParseError whose message lists all of them; a document that is not YAML
\* or not a mapping fails with a single error before any section is parsed.
C2_AllViolationsReported ==
  /\ (Done /\ outcome.built # <<>> /\ ViolationSet(Built) # {}) =>
       /\ outcome.exc = "PSDLParseError"
       /\ outcome.msg[1] = "Validation errors"
       /\ {outcome.msg[2][k] : k \in 1..Len(outcome.msg[2])} = ViolationSet(Built)
       /\ {errors[k] : k \in 1..Len(errors)} = ViolationSet(Built)
  /\ (Done /\ content.t # "dict") =>
       /\ outcome.exc = "PSDLParseError"
       /\ Len(outcome.msg) = 1
       /\ outcome.sections = <<>>
       /\ errors = <<>>

\* a call that raised for four or more violations of two or more kinds
C2_Witness ==
  /\ Done
  /\ outcome.exc = "PSDLParseError"
  /\ outcome.msg[1] = "Validation errors"
  /\ Cardinality(ViolationSet(Built)) >= 4
  /\ Cardinality({x.kind : x \in ViolationSet(Built)}) >= 2

\* the section whose parsing raised: the one after the sections parsed
SectionOrder ==
  <<"name", "version", "population", "signals", "trends", "logic", "audit", "state", "validate">>
FailedAt == SectionOrder[Len(outcome.sections) + 1]

\* C3: the call fails with a PSDLParseError whenever scenario or version is
\* absent or not a string or signals or logic is absent; an absent trends,
\* population, audit, state, mapping or description is never what fails.
C3_RequiredFields ==
  (Done /\ content.t = "dict") =>
    /\ (\/ content.v.scenario.t # "str"
        \/ content.v.version.t # "str"
        \/ content.v.signals.t = "absent"
        \/ content.v.logic.t = "absent") => outcome.exc = "PSDLParseError"
    /\ \A f \in {"population", "trends", "audit", "state"} :
         (content.v[f].t = "absent" /\ outcome.exc # "none") => FailedAt # f
    /\ content.v = [Base EXCEPT !.trends = Absent, !.logic = Dict(<<>>)] => outcome.exc = "none"

\* C8: no returned scenario has a cycle among its logic rules, and a built
\* scenario with such a cycle makes the call raise.
C8_NoLogicCycle ==
  /\ Returned => \A k \in 1..Len(Scenario.logic) : ~CycleThrough(Scenario, Scenario.logic[k].name)
  /\ (Done /\ outcome.built # <<>>
      /\ \E k \in 1..Len(Built.logic) : CycleThrough(Built, Built.logic[k].name))
     => outcome.exc = "PSDLParseError"

\* a scenario whose rules form a cycle of three was built and rejected
C8_Witness ==
  /\ Done
  /\ outcome.built # <<>>
  /\ Len(Built.logic) = 3
  /\ \A k \in 1..3 : CycleThrough(Built, Built.logic[k].name)
  /\ outcome.exc = "PSDLParseError"

\* the signals with an unrecognized domain and the rules with an unrecognized
\* severity of a document
UnknownIn(section, key, values) ==
  IF section.t # "dict" THEN {}
  ELSE {k \in 1..Len(section.v) :
          /\ section.v[k][2].t = "dict"
          /\ Has(section.v[k][2], key)
          /\ \A x \in values : Get(section.v[k][2], key) # Str(<<x>>)}

\* the document with every domain and severity replaced by a recognized one
Recognized(section, key, value) ==
  IF section.t # "dict" THEN section
  ELSE Dict([k \in 1..Len(section.v) |->
               IF section.v[k][2].t # "dict" THEN section.v[k]
               ELSE <<section.v[k][1],
                      Dict([j \in 1..Len(section.v[k][2].v) |->
                              IF section.v[k][2].v[j][1] = key THEN <<key, Str(<<value>>)>>
                              ELSE section.v[k][2].v[j]])>>])
RecognizedDoc(c) ==
  Dict([c.v EXCEPT !.signals = Recognized(@, "domain", "measurement"),
                   !.logic = Recognized(@, "severity", "low")])

\* C10: an unrecognized domain or severity never makes the call fail: the call
\* ends as it does with recognized values in their place; when it returns, the
\* signal has domain measurement, the rule has no severity, self.warnings has
\* one warning per unrecognized value and self.errors is empty.
C10_UnknownEnumWarns ==
  (Done /\ content.t = "dict") =>
    /\ outcome.exc = parse_string(RecognizedDoc(content)).exc
    /\ outcome.exc = "none" =>
         /\ errors = <<>>
         /\ Len(warnings) = Cardinality(UnknownIn(content.v.signals, "domain", DomainValues))
                            + Cardinality(UnknownIn(content.v.logic, "severity", SeverityValues))
         /\ \A k \in UnknownIn(content.v.signals, "domain", DomainValues) :
              Scenario.signals[k].domain = "measurement"
         /\ \A k \in UnknownIn(content.v.logic, "severity", SeverityValues) :
              Scenario.logic[k].severity = <<>>

\* a scenario was returned from a document with an unrecognized domain and an
\* unrecognized severity
C10_Witness ==
  /\ Returned
  /\ UnknownIn(content.v.signals, "domain", DomainValues) # {}
  /\ UnknownIn(content.v.logic, "severity", SeverityValues) # {}
  /\ Len(warnings) >= 2


(***************************************************************************)
(* The temporal operators (operators.py).  A timestamp is a whole number   *)
(* of microseconds, the resolution of datetime; a float is held as the     *)
(* exact quotient num / den, or its square root when root = 2, and an int  *)
(* n as n / 1; a result is <<>> for None and <<x>> for the number x.       *)
(***************************************************************************)
DataPoint(timestamp, value) == [timestamp |-> timestamp, value |-> value]
Q(num, den) == [num |-> num, den |-> den, root |-> 1]

\* timedelta(seconds=1) in microseconds
MicrosPerSecond == 1000000
RECURSIVE sum(_)
sum(xs) == IF xs = <<>> THEN 0 ELSE Head(xs) + sum(Tail(xs))

\* the values of the points in ascending order
sorted(f) ==
  CHOOSE r \in [1..Len(f) -> {f[i].value : i \in 1..Len(f)}] :
    /\ \A i \in 1..Len(f) : \A j \in i..Len(f) : r[i] <= r[j]
    /\ \A i \in 1..Len(f) :
         Cardinality({j \in 1..Len(f) : r[j] = f[i].value})
           = Cardinality({j \in 1..Len(f) : f[j].value = f[i].value})

\* the window without its start
filter_by_window_open(data, window_seconds, reference_time) ==
  SelectSeq(data, LAMBDA dp :
    /\ reference_time - window_seconds * MicrosPerSecond < dp.timestamp
    /\ dp.timestamp <= reference_time)

\* reference_time is always supplied, so line 59 keeps it
filter_by_window(data, window_seconds, reference_time) ==
  IF data = <<>> THEN <<>>
  ELSE SelectSeq(data, LAMBDA dp :
         /\ reference_time - window_seconds * MicrosPerSecond <= dp.timestamp
         /\ dp.timestamp <= reference_time)

last(data) == IF data = <<>> THEN <<>> ELSE <<Q(data[Len(data)].value, 1)>>

\* the first point of the data, in the window or not
first_unfiltered(data, window_seconds, reference_time) ==
  IF data = <<>> THEN <<>> ELSE <<Q(data[1].value, 1)>>

first(data, window_seconds, reference_time) ==
  LET filtered == filter_by_window(data, window_seconds, reference_time)
  IN IF filtered = <<>> THEN <<>> ELSE <<Q(filtered[1].value, 1)>>

\* the change over the whole data
delta_unfiltered(data, window_seconds, reference_time) ==
  IF Len(data) < 2 THEN <<>> ELSE <<Q(data[Len(data)].value - data[1].value, 1)>>

delta(data, window_seconds, reference_time) ==
  LET filtered == filter_by_window(data, window_seconds, reference_time)
  IN IF Len(filtered) < 2 THEN <<>>
     ELSE <<Q(filtered[Len(filtered)].value - filtered[1].value, 1)>>

\* lines 160-165; the sums are over x in microseconds, so the quotient of line
\* 164 is per microsecond and is brought to per second
least_squares(n, sum_x, sum_y, sum_xy, sum_x2) ==
  LET denominator == n * sum_x2 - sum_x * sum_x
  IN IF (IF denominator < 0 THEN -denominator ELSE denominator) < 100
     THEN <<Q(0, 1)>>
     ELSE <<Q((n * sum_xy - sum_x * sum_y) * MicrosPerSecond, denominator)>>

\* x[i] of line 151 is filtered[i].timestamp - filtered[1].timestamp
slope(data, window_seconds, reference_time) ==
  LET filtered == filter_by_window(data, window_seconds, reference_time)
  IN IF Len(filtered) < 2 THEN <<>>
     ELSE least_squares(
            Len(filtered),
            sum([i \in 1..Len(filtered) |-> filtered[i].timestamp - filtered[1].timestamp]),
            sum([i \in 1..Len(filtered) |-> filtered[i].value]),
            sum([i \in 1..Len(filtered) |->
                   (filtered[i].timestamp - filtered[1].timestamp) * filtered[i].value]),
            sum([i \in 1..Len(filtered) |->
                   (filtered[i].timestamp - filtered[1].timestamp)
                     * (filtered[i].timestamp - filtered[1].timestamp)]))

\* 0 for an empty window
sma_zero(data, window_seconds, reference_time) ==
  LET filtered == filter_by_window(data, window_seconds, reference_time)
  IN IF filtered = <<>> THEN <<Q(0, 1)>>
     ELSE <<Q(sum([i \in 1..Len(filtered) |-> filtered[i].value]), Len(filtered))>>

sma(data, window_seconds, reference_time) ==
  LET filtered == filter_by_window(data, window_seconds, reference_time)
  IN IF filtered = <<>> THEN <<>>
     ELSE <<Q(sum([i \in 1..Len(filtered) |-> filtered[i].value]), Len(filtered))>>

RECURSIVE ema_loop(_, _, _)
\* the loop of lines 221-222 from point i: alpha = 2 / (span + 1)
ema_loop(filtered, i, acc) ==
  IF i > Len(filtered) THEN acc
  ELSE ema_loop(filtered, i + 1,
                Q(2 * filtered[i].value * acc.den + (Len(filtered) - 1) * acc.num,
                  (Len(filtered) + 1) * acc.den))

ema(data, window_seconds, reference_time) ==
  LET filtered == filter_by_window(data, window_seconds, reference_time)
  IN IF filtered = <<>> THEN <<>>
     ELSE IF Len(filtered) = 1 THEN <<Q(filtered[1].value, 1)>>
     ELSE <<ema_loop(filtered, 2, Q(filtered[1].value, 1))>>

min_val(data, window_seconds, reference_time) ==
  LET filtered == filter_by_window(data, window_seconds, reference_time)
  IN IF filtered = <<>> THEN <<>>
     ELSE <<Q(Min({filtered[i].value : i \in 1..Len(filtered)}), 1)>>

max_val(data, window_seconds, reference_time) ==
  LET filtered == filter_by_window(data, window_seconds, reference_time)
  IN IF filtered = <<>> THEN <<>>
     ELSE <<Q(Max({filtered[i].value : i \in 1..Len(filtered)}), 1)>>

count(data, window_seconds, reference_time) ==
  <<Q(Len(filter_by_window(data, window_seconds, reference_time)), 1)>>

\* mean = s / n, so (value - mean) ** 2 = (n * value - s) ** 2 / n ** 2
std(data, window_seconds, reference_time) ==
  LET filtered == filter_by_window(data, window_seconds, reference_time)
      n == Len(filtered)
      s == sum([i \in 1..Len(filtered) |-> filtered[i].value])
  IN IF n < 2 THEN <<>>
     ELSE <<[num |-> sum([i \in 1..n |-> (n * filtered[i].value - s)
                                           * (n * filtered[i].value - s)]),
             den |-> n * n * (n - 1),
             root |-> 2]>>

\* percentile over the in-window values in input order
percentile_unsorted(data, window_seconds, p, reference_time) ==
  LET filtered == filter_by_window(data, window_seconds, reference_time)
      n == Len(filtered)
      k100 == p * (n - 1)
      f == k100 \div 100
  IN IF filtered = <<>> THEN <<>>
     ELSE IF n = 1 THEN <<Q(filtered[1].value, 1)>>
     ELSE IF k100 % 100 = 0 THEN <<Q(filtered[f + 1].value, 1)>>
     ELSE <<Q(filtered[f + 1].value * (100 * (f + 1) - k100)
              + filtered[f + 2].value * (k100 - 100 * f), 100)>>

\* k = (p / 100) * (n - 1) is held as k100 = p * (n - 1), f and c as f = k100 \div 100
\* and c = f or f + 1; Python's list index starts at 0
percentile(data, window_seconds, p, reference_time) ==
  LET filtered == filter_by_window(data, window_seconds, reference_time)
      n == Len(filtered)
      k100 == p * (n - 1)
      f == k100 \div 100
  IN IF filtered = <<>> THEN <<>>
     ELSE IF n = 1 THEN <<Q(sorted(filtered)[1], 1)>>
     ELSE IF k100 % 100 = 0 THEN <<Q(sorted(filtered)[f + 1], 1)>>
     ELSE <<Q(sorted(filtered)[f + 1] * (100 * (f + 1) - k100)
              + sorted(filtered)[f + 2] * (k100 - 100 * f), 100)>>

\* TemporalOperators.<method>(data, window_seconds[, p], reference_time)
TemporalOperators(method, data, window_seconds, p, reference_time) ==
  CASE method = "filter_by_window" -> filter_by_window(data, window_seconds, reference_time)
    [] method = "last" -> last(data)
    [] method = "first" -> first(data, window_seconds, reference_time)
    [] method = "delta" -> delta(data, window_seconds, reference_time)
    [] method = "slope" -> slope(data, window_seconds, reference_time)
    [] method = "sma" -> sma(data, window_seconds, reference_time)
    [] method = "ema" -> ema(data, window_seconds, reference_time)
    [] method = "min_val" -> min_val(data, window_seconds, reference_time)
    [] method = "max_val" -> max_val(data, window_seconds, reference_time)
    [] method = "count" -> count(data, window_seconds, reference_time)
    [] method = "std" -> std(data, window_seconds, reference_time)
    [] method = "percentile" -> percentile(data, window_seconds, p, reference_time)

\* the registry: operator name to method
OPERATORS ==
  [delta |-> "delta", slope |-> "slope", ema |-> "ema", sma |-> "sma", min |-> "min_val",
   max |-> "max_val", count |-> "count", last |-> "last", first |-> "first", std |-> "std"]

\* no value for a name outside the registry
apply_operator_lenient(operator, data, window_seconds, reference_time) ==
  IF operator \notin DOMAIN OPERATORS THEN Return(<<>>)
  ELSE IF operator = "last" THEN Return(last(data))
  ELSE IF window_seconds = <<>>
  THEN Raise("ValueError", <<"Operator requires a window specification", operator>>)
  ELSE Return(TemporalOperators(OPERATORS[operator], data, window_seconds[1], 0, reference_time))

\* last over the points in the window when a window is given
apply_operator_last_in_window(operator, data, window_seconds, reference_time) ==
  IF operator \notin DOMAIN OPERATORS THEN Raise("ValueError", <<"Unknown operator", operator>>)
  ELSE IF operator = "last"
  THEN Return(last(IF window_seconds = <<>> THEN data
                   ELSE filter_by_window(data, window_seconds[1], reference_time)))
  ELSE IF window_seconds = <<>>
  THEN Raise("ValueError", <<"Operator requires a window specification", operator>>)
  ELSE Return(TemporalOperators(OPERATORS[operator], data, window_seconds[1], 0, reference_time))

\* window_seconds is <<>> for None
apply_operator(operator, data, window_seconds, reference_time) ==
  IF operator \notin DOMAIN OPERATORS THEN Raise("ValueError", <<"Unknown operator", operator>>)
  ELSE IF operator = "last" THEN Return(last(data))
  ELSE IF window_seconds = <<>>
  THEN Raise("ValueError", <<"Operator requires a window specification", operator>>)
  ELSE Return(TemporalOperators(OPERATORS[operator], data, window_seconds[1], 0, reference_time))

(***************************************************************************)
(* Calls of the operators on drawn data.                                   *)
(***************************************************************************)
MaxPoints == 3
RefTime == 2 * MicrosPerSecond

\* a window and reference time with the timestamps drawn around the window's
\* start, around its end, and around a window of no length
Scenes ==
  {[window_seconds |-> 1, reference_time |-> RefTime,
    times |-> {RefTime - MicrosPerSecond - 1, RefTime - MicrosPerSecond,
               RefTime - MicrosPerSecond + 4, RefTime - MicrosPerSecond + 12}],
   [window_seconds |-> 1, reference_time |-> RefTime,
    times |-> {RefTime - 12, RefTime - 4, RefTime, RefTime + 1}],
   [window_seconds |-> 0, reference_time |-> RefTime,
    times |-> {RefTime - 1, RefTime, RefTime + 1}]}

InitOperators ==
  /\ pc = "operator"
  /\ args \in
       {[data |-> d, window_seconds |-> s.window_seconds, reference_time |-> s.reference_time] :
          <<s, d>> \in UNION {{<<sc, dd>> :
                     dd \in UNION {[1..n -> {DataPoint(ts, value) : ts \in sc.times, value \in {0, 2}}] :
                                     n \in 0..MaxPoints}} :
                   sc \in Scenes}}
  /\ result = Pending
  /\ expr = <<>>
  /\ parsed = Pending
  /\ content = NoDocument
  /\ errors = <<>>
  /\ warnings = <<>>
  /\ outcome = Pending
  /\ calls = 0
  /\ backend = <<>>
  /\ files = <<>>

\* a direct call of a static method of TemporalOperators
CallMethod(method, p) ==
  /\ pc = "operator"
  /\ result' = [call |-> "method", name |-> method, window |-> <<args.window_seconds>>, p |-> p,
                ret |-> Return(TemporalOperators(method, args.data, args.window_seconds, p,
                                                 args.reference_time))]
  /\ pc' = "returned"
  /\ UNCHANGED <<content, errors, warnings, outcome, calls, expr, parsed, args, backend, files>>

\* a call of apply_operator, with or without a window
ApplyOperator(operator, window) ==
  /\ pc = "operator"
  /\ result' = [call |-> "apply_operator", name |-> operator, window |-> window, p |-> 0,
                ret |-> apply_operator(operator, args.data, window, args.reference_time)]
  /\ pc' = "returned"
  /\ UNCHANGED <<content, errors, warnings, outcome, calls, expr, parsed, args, backend, files>>

SpecOperators ==
  InitOperators /\ [][
    \/ \E method \in {"filter_by_window", "last", "first", "delta", "slope", "sma", "ema",
                      "min_val", "max_val", "count", "std"} : CallMethod(method, 0)
    \/ \E p \in {0, 25, 50, 100} : CallMethod("percentile", p)
    \/ \E operator \in DOMAIN OPERATORS \cup {"stddev", "percentile", "median"} :
         \E window \in {<<>>, <<args.window_seconds>>} : ApplyOperator(operator, window)
  ]_vars

(***************************************************************************)
(* Claims about the operators, under SpecOperators.                        *)
(***************************************************************************)
MethodReturned(method) == pc = "returned" /\ result.call = "method" /\ result.name = method
Ret == result.ret.val[1]

\* the positions of the data whose point lies in [T - W, T]
InWindow ==
  {i \in 1..Len(args.data) :
     /\ args.reference_time - args.window_seconds * MicrosPerSecond <= args.data[i].timestamp
     /\ args.data[i].timestamp <= args.reference_time}
\* the k-th of them
KthInWindow(k) == CHOOSE i \in InWindow : Cardinality({j \in InWindow : j <= i}) = k
Ascending ==
  \A i \in 1..Len(args.data) : \A j \in i..Len(args.data) :
    args.data[i].timestamp <= args.data[j].timestamp

\* C11: filter_by_window returns exactly the points with T - W <= t <= T, each
\* once and in the order of the input.
C11_WindowIsClosedInterval ==
  MethodReturned("filter_by_window") =>
    /\ Len(Ret) = Cardinality(InWindow)
    /\ \A k \in 1..Len(Ret) : Ret[k] = args.data[KthInWindow(k)]

\* a point at exactly T - W of a one-second window was kept, one before it dropped
C11_Witness ==
  /\ MethodReturned("filter_by_window")
  /\ args.window_seconds = 1
  /\ \E k \in 1..Len(Ret) : Ret[k].timestamp = args.reference_time - MicrosPerSecond
  /\ Len(Ret) = 2
  /\ Len(args.data) = 3

\* C12: filtering the result of filter_by_window again with the same W and T
\* gives the same sequence, and every windowed operator gives on the filtered
\* data what it gives on the raw data.
C12_FilterIdempotent ==
  (pc = "returned" /\ result.call = "method" /\ result.name # "last") =>
    /\ TemporalOperators(result.name,
                         filter_by_window(args.data, args.window_seconds, args.reference_time),
                         args.window_seconds, result.p, args.reference_time) = Ret
    /\ result.name = "filter_by_window" =>
         filter_by_window(Ret, args.window_seconds, args.reference_time) = Ret

\* first was called on data whose first point is outside the window
C12_Witness ==
  /\ MethodReturned("first")
  /\ Len(args.data) = 3
  /\ 1 \notin InWindow
  /\ Ret # <<>>
  /\ Ret[1].num # args.data[1].value

\* C13: on ascending data with two or more points in the window, delta is the
\* value of the last in-window point minus that of the first in-window point.
C13_DeltaLastMinusFirst ==
  (MethodReturned("delta") /\ Ascending /\ Cardinality(InWindow) >= 2) =>
    Ret = <<Q(args.data[KthInWindow(Cardinality(InWindow))].value
               - args.data[KthInWindow(1)].value, 1)>>

\* delta is 0 over two equal in-window values that follow a different value
\* outside the window
C13_Witness ==
  /\ MethodReturned("delta")
  /\ Ascending
  /\ InWindow = {2, 3}
  /\ args.data[1].value # args.data[2].value
  /\ Ret = <<Q(0, 1)>>

\* C14: with n points in the window, first, sma, ema, min, max and percentile
\* return None iff n = 0; delta, slope and std return None iff n < 2; count
\* returns n.
C14_NoValueOnlyWhenTooFewPoints ==
  (pc = "returned" /\ result.call = "method") =>
    /\ result.name \in {"first", "sma", "ema", "min_val", "max_val", "percentile"} =>
         (Ret = <<>> <=> Cardinality(InWindow) = 0)
    /\ result.name \in {"delta", "slope", "std"} =>
         (Ret = <<>> <=> Cardinality(InWindow) < 2)
    /\ result.name = "count" => Ret = <<Q(Cardinality(InWindow), 1)>>

\* sma computed 0 over two in-window points
C14_Witness ==
  /\ MethodReturned("sma")
  /\ Cardinality(InWindow) = 2
  /\ Ret # <<>>
  /\ Ret[1].num = 0

\* the sums of slope over the in-window points, x in microseconds
SlopeX(k) == args.data[KthInWindow(k)].timestamp - args.data[KthInWindow(1)].timestamp
SlopeY(k) == args.data[KthInWindow(k)].value
SlopeN == Cardinality(InWindow)
Sx == sum([k \in 1..SlopeN |-> SlopeX(k)])
Sy == sum([k \in 1..SlopeN |-> SlopeY(k)])
Sxy == sum([k \in 1..SlopeN |-> SlopeX(k) * SlopeY(k)])
Sxx == sum([k \in 1..SlopeN |-> SlopeX(k) * SlopeX(k)])

\* C15: with two or more in-window points slope is (n*Sxy - Sx*Sy) / (n*Sxx -
\* Sx*Sx), x in seconds; it is 0 when all in-window points share one timestamp,
\* and the quotient with a non-zero denominator whenever they do not.
C15_SlopeIsLeastSquares ==
  (MethodReturned("slope") /\ SlopeN >= 2) =>
    IF \A k \in 1..SlopeN : SlopeX(k) = 0
    THEN Ret = <<Q(0, 1)>>
    ELSE /\ SlopeN * Sxx - Sx * Sx # 0
         /\ \/ Ret = <<Q((SlopeN * Sxy - Sx * Sy) * MicrosPerSecond, SlopeN * Sxx - Sx * Sx)>>
            \/ (SlopeN * Sxy - Sx * Sy = 0 /\ Ret # <<>> /\ Ret[1].num = 0)

ApplyReturned == pc = "returned" /\ result.call = "apply_operator"

sign(value, threshold) ==
  LET left == IF value.root = 1 THEN value.num * 10 ^ threshold.exp
              ELSE IF threshold.num < 0 THEN 1
              ELSE value.num * 10 ^ threshold.exp * 10 ^ threshold.exp
      right == IF value.root = 1 THEN threshold.num * value.den
               ELSE IF threshold.num < 0 THEN 0
               ELSE threshold.num * threshold.num * value.den
  IN IF left < right THEN -1 ELSE IF left = right THEN 0 ELSE 1

\* a value against a comparator and threshold; no value is never true
compare(value, comparator, threshold) ==
  IF value = <<>> \/ comparator = <<>> \/ threshold = <<>> THEN FALSE
  ELSE CASE comparator = <<">">> -> sign(value[1], threshold[1]) = 1
         [] comparator = <<"<">> -> sign(value[1], threshold[1]) = -1
         [] comparator = <<">", "=">> -> sign(value[1], threshold[1]) >= 0
         [] comparator = <<"<", "=">> -> sign(value[1], threshold[1]) <= 0
         [] comparator = <<"=", "=">> -> sign(value[1], threshold[1]) = 0
         [] comparator = <<"!", "=">> -> sign(value[1], threshold[1]) # 0
         [] OTHER -> FALSE

\* step 1 for one trend: the operator applied to the signal's data
evaluate_trend(trend, data, reference_time) ==
  apply_operator(
    <<"delta", "slope", "ema", "sma", "min", "max", "count", "last", "first", "std",
      "stddev", "percentile">>[CHOOSE k \in 1..Len(TrendOps) : TrendOps[k] = trend.operator],
    data[trend.signal],
    IF trend.window = <<>> THEN <<>> ELSE <<(trend.window[1].value
                                             * (CASE trend.window[1].unit = "s" -> 1
                                                  [] trend.window[1].unit = "m" -> 60
                                                  [] trend.window[1].unit = "h" -> 3600
                                                  [] trend.window[1].unit = "d" -> 86400))>>,
    reference_time)

RECURSIVE evaluate_formula(_, _, _, _), evaluate_rest(_, _, _, _)
\* the value of the formula text from position i and the position after it:
\* level 0 reads an OR chain, level 1 an AND chain, level 2 a NOT, a
\* parenthesized formula or a term
evaluate_formula(s, i, level, values) ==
  IF level < 2 THEN evaluate_rest(s, evaluate_formula(s, i, level + 1, values), level, values)
  ELSE IF At(s, SkipWs(s, i)) = "("
  THEN [truth |-> evaluate_formula(s, SkipWs(s, i) + 1, 0, values).truth,
        pos |-> SkipWs(s, evaluate_formula(s, SkipWs(s, i) + 1, 0, values).pos) + 1]
  ELSE IF upper(SubSeq(s, SkipWs(s, i), Span(s, SkipWs(s, i), WordChars) - 1)) = <<"N", "O", "T">>
  THEN [truth |-> ~evaluate_formula(s, Span(s, SkipWs(s, i), WordChars), 2, values).truth,
        pos |-> evaluate_formula(s, Span(s, SkipWs(s, i), WordChars), 2, values).pos]
  ELSE [truth |-> IF SubSeq(s, SkipWs(s, i), Span(s, SkipWs(s, i), WordChars) - 1) \in DOMAIN values
              THEN values[SubSeq(s, SkipWs(s, i), Span(s, SkipWs(s, i), WordChars) - 1)]
              ELSE FALSE,
        pos |-> Span(s, SkipWs(s, i), WordChars)]

RECURSIVE evaluate_rest_swapped(_, _, _, _)
evaluate_rest_swapped(s, left, level, values) ==
  IF upper(SubSeq(s, SkipWs(s, left.pos), Span(s, SkipWs(s, left.pos), WordChars) - 1))
       = (IF level = 1 THEN <<"O", "R">> ELSE <<"A", "N", "D">>)
  THEN evaluate_rest_swapped(
         s,
         [truth |-> IF level = 1
                THEN left.truth \/ evaluate_formula(s, Span(s, SkipWs(s, left.pos), WordChars),
                                                level + 1, values).truth
                ELSE left.truth /\ evaluate_formula(s, Span(s, SkipWs(s, left.pos), WordChars),
                                                level + 1, values).truth,
          pos |-> evaluate_formula(s, Span(s, SkipWs(s, left.pos), WordChars), level + 1, values).pos],
         level, values)
  ELSE left

\* the chain continues while the next word is the connective of the level
evaluate_rest(s, left, level, values) ==
  IF upper(SubSeq(s, SkipWs(s, left.pos), Span(s, SkipWs(s, left.pos), WordChars) - 1))
       = (IF level = 0 THEN <<"O", "R">> ELSE <<"A", "N", "D">>)
  THEN evaluate_rest(
         s,
         [truth |-> IF level = 0
                THEN left.truth \/ evaluate_formula(s, Span(s, SkipWs(s, left.pos), WordChars),
                                                level + 1, values).truth
                ELSE left.truth /\ evaluate_formula(s, Span(s, SkipWs(s, left.pos), WordChars),
                                                level + 1, values).truth,
          pos |-> evaluate_formula(s, Span(s, SkipWs(s, left.pos), WordChars), level + 1, values).pos],
         level, values)
  ELSE left

RECURSIVE evaluate_logic_in_order(_, _, _)
evaluate_logic_in_order(logic, values, rounds) ==
  IF rounds = 0 THEN values
  ELSE evaluate_logic_in_order(
         logic,
         [n \in DOMAIN values \cup {logic[Len(logic) - rounds + 1].name} |->
            IF n \in DOMAIN values THEN values[n]
            ELSE evaluate_formula(logic[Len(logic) - rounds + 1].expr, 1, 0, values).truth],
         rounds - 1)

RECURSIVE evaluate_logic(_, _, _)
\* step 2 in dependency order: each round evaluates the rules whose terms all
\* have a value
evaluate_logic(logic, values, rounds) ==
  IF rounds = 0 THEN values
  ELSE evaluate_logic(
         logic,
         [n \in DOMAIN values
               \cup {logic[k].name : k \in {j \in 1..Len(logic) :
                                              \A x \in 1..Len(logic[j].terms) :
                                                logic[j].terms[x] \in DOMAIN values}} |->
            IF n \in DOMAIN values THEN values[n]
            ELSE evaluate_formula(
                   logic[CHOOSE k \in 1..Len(logic) : logic[k].name = n].expr, 1, 0, values).truth],
         rounds - 1)

next_state_last(sm, current_state, triggered_logic) ==
  IF \E k \in 1..Len(sm.transitions) :
       /\ sm.transitions[k].from_state = current_state
       /\ sm.transitions[k].when.v \in triggered_logic
  THEN sm.transitions[Max({k \in 1..Len(sm.transitions) :
                             /\ sm.transitions[k].from_state = current_state
                             /\ sm.transitions[k].when.v \in triggered_logic})].to_state
  ELSE current_state

\* step 4: the first transition from the current state whose guard is triggered
next_state(sm, current_state, triggered_logic) ==
  IF \E k \in 1..Len(sm.transitions) :
       /\ sm.transitions[k].from_state = current_state
       /\ sm.transitions[k].when.v \in triggered_logic
  THEN sm.transitions[Min({k \in 1..Len(sm.transitions) :
                             /\ sm.transitions[k].from_state = current_state
                             /\ sm.transitions[k].when.v \in triggered_logic})].to_state
  ELSE current_state

\* evaluate(patient, reference_time, current_state): the operator results of
\* the trends in declaration order, then the rules, then the state machine
evaluate(scenario, data, reference_time, current_state) ==
  LET values == [k \in 1..Len(scenario.trends) |->
                   evaluate_trend(scenario.trends[k], data, reference_time)]
      triggered_logic ==
        {n \in Names(scenario.logic) :
           evaluate_logic(scenario.logic,
                          [m \in Names(scenario.trends) |->
                             LET k == CHOOSE j \in 1..Len(values) : scenario.trends[j].name = m
                             IN compare(ValueOf(values[k]), scenario.trends[k].comparator,
                                        scenario.trends[k].threshold)],
                          Len(scenario.logic))[n]}
  IN IF \E k \in 1..Len(values) : Raised(values[k])
     THEN values[CHOOSE k \in 1..Len(values) : Raised(values[k])]
     ELSE Return([is_triggered |-> triggered_logic # {},
                  trend_values |->
                    [k \in 1..Len(values) |->
                       [name |-> scenario.trends[k].name, value |-> ValueOf(values[k])]],
                  triggered_logic |-> triggered_logic,
                  current_state |->
                    IF scenario.state = <<>> THEN <<>>
                    ELSE <<next_state(scenario.state[1], current_state, triggered_logic)>>])

(***************************************************************************)
(* One scenario under evaluation, and the calls a caller makes with it.    *)
(***************************************************************************)
MaxEvaluations == 2

\* the scenario document whose trend a applies the k-th operator of the trend
\* grammar to signal x
EvalDoc(k) ==
  Dict([Base EXCEPT
    !.signals = Dict(<<<<<<"x">>, Str(<<"x", "_", "s", "r", "c">>)>>, <<<<"y">>, Str(<<"y", "_", "s", "r", "c">>)>>, <<<<"z">>, Str(<<"z", "_", "s", "r", "c">>)>>>>),
    !.trends = Dict(<<
      <<<<"a">>, Str(TrendOps[k] \o (IF k = 8 THEN <<"(", "x", ")", " ", ">", " ", "0">> ELSE <<"(", "x", ",", " ", "1", "s", ")", " ", ">", " ", "0">>))>>,
      <<<<"b">>, Str(<<"l", "a", "s", "t", "(", "y", ")", " ", ">", " ", "0">>)>>,
      <<<<"c">>, Str(<<"m", "a", "x", "(", "z", ",", " ", "1", "s", ")", " ", ">", " ", "0">>)>>,
      <<<<"n">>, Str(<<"c", "o", "u", "n", "t", "(", "x", ",", " ", "1", "s", ")", " ", "<", " ", "1">>)>>>>),
    !.logic = Dict(<<
      <<<<"p", "1">>, Str(<<"a", " ", "A", "N", "D", " ", "b", " ", "O", "R", " ", "N", "O", "T", " ", "c">>)>>,
      <<<<"p", "2">>, Str(<<"a", " ", "A", "N", "D", " ", "(", "b", " ", "O", "R", " ", "n", ")">>)>>,
      <<<<"p", "3">>, Str(<<"a", " ", "A", "N", "D", " ", "b", " ", "O", "R", " ", "n">>)>>,
      <<<<"q">>, Str(<<"w", " ", "a", "n", "d", " ", "b">>)>>,
      <<<<"w">>, Str(<<"N", "O", "T", " ", "a", " ", "A", "N", "D", " ", "b">>)>>,
      <<<<"e">>, Str(<<"n">>)>>>>),
    !.state = Dict(<<<<"initial", Str(<<"s", "0">>)>>, <<"states", List(<<Str(<<"s", "0">>), Str(<<"s", "1">>), Str(<<"s", "2">>)>>)>>, <<"transitions", List(<<Dict(<<<<"from", Str(<<"s", "0">>)>>, <<"to", Str(<<"s", "1">>)>>, <<"when", Str(<<"p", "3">>)>>>>),
        Dict(<<<<"from", Str(<<"s", "0">>)>>, <<"to", Str(<<"s", "2">>)>>, <<"when", Str(<<"p", "1">>)>>>>),
        Dict(<<<<"from", Str(<<"s", "1">>)>>, <<"to", Str(<<"s", "2">>)>>, <<"when", Str(<<"q">>)>>>>),
        Dict(<<<<"from", Str(<<"s", "2">>)>>, <<"to", Str(<<"s", "0">>)>>, <<"when", Str(<<"w">>)>>>>),
        Dict(<<<<"from", Str(<<"s", "1">>)>>, <<"to", Str(<<"s", "0">>)>>, <<"when", Str(<<"e">>)>>>>)>>)>>>>)])

\* what a caller supplies: the data of each signal and the prior state
Supplied(current_state) ==
  LET before == <<DataPoint(RefTime - MicrosPerSecond - 1, 2)>>
      within == <<DataPoint(RefTime - 12, 0), DataPoint(RefTime, 2)>>
  IN {[data |-> [s \in {<<"x">>, <<"y">>, <<"z">>} |->
                   IF s = <<"x">> THEN dx ELSE IF s = <<"y">> THEN dy ELSE dz],
       reference_time |-> RefTime, current_state |-> current_state] :
        dx \in {<<>>, before, within}, dy \in {<<>>, within}, dz \in {<<>>, within}}

InitEvaluate ==
  /\ pc = "ready"
  /\ parsed \in {parse_string(EvalDoc(k)) : k \in 1..Len(TrendOps)}
  /\ args \in UNION {Supplied(Str(s)) : s \in {<<"s", "0">>, <<"s", "1">>, <<"s", "2">>, <<"s", "9">>}}
  /\ result = Pending
  /\ calls = 0
  /\ expr = <<>>
  /\ content = NoDocument
  /\ errors = <<>>
  /\ warnings = <<>>
  /\ outcome = Pending
  /\ backend = <<>>
  /\ files = <<>>

\* evaluator.evaluate(...) with the supplied data and prior state
Evaluate ==
  /\ pc = "ready"
  /\ result' = evaluate(ValueOf(parsed), args.data, args.reference_time, args.current_state)
  /\ pc' = "returned"
  /\ calls' = calls + 1
  /\ UNCHANGED <<content, errors, warnings, outcome, expr, parsed, args, backend, files>>

\* the caller supplies the returned state and new data to the next call
NextCall ==
  /\ pc = "returned"
  /\ calls < MaxEvaluations
  /\ ~Raised(result)
  /\ args' \in Supplied(ValueOf(result).current_state[1])
  /\ result' = Pending
  /\ pc' = "ready"
  /\ UNCHANGED <<content, errors, warnings, outcome, expr, parsed, calls, backend, files>>

SpecEvaluate == InitEvaluate /\ [][Evaluate \/ NextCall]_vars

(***************************************************************************)
(* Properties of the evaluation engine.                                    *)
(***************************************************************************)
Evaluated == pc = "returned" /\ ~Raised(result)
Machine == ValueOf(parsed).state[1]
Triggered == ValueOf(result).triggered_logic
ResultState == ValueOf(result).current_state[1]
\* the transitions that leave the supplied state and whose guard is triggered
Enabled ==
  {k \in 1..Len(Machine.transitions) :
     /\ Machine.transitions[k].from_state = args.current_state
     /\ \E n \in Triggered : Str(n) = Machine.transitions[k].when}
\* the state the caller holds: the one it supplies, then the one returned
Held == IF Evaluated THEN ResultState ELSE args.current_state

\* C17: an evaluation returns the `to` of the first transition, in declaration
\* order, that leaves the supplied state and whose guard rule is triggered,
\* and the supplied state when there is none; a declared supplied state gives
\* a declared resulting state; and over the calls the state the caller holds
\* changes only along one declared transition whose guard is triggered.
C17_FirstEnabledTransition ==
  [][/\ Evaluated' =>
          /\ \A k \in Enabled' :
               (\A j \in Enabled' : k <= j) => ResultState' = Machine.transitions[k].to_state
          /\ Enabled' = {} => ResultState' = args.current_state
          /\ (\E k \in 1..Len(Machine.states.v) : Machine.states.v[k] = args.current_state)
               => \E k \in 1..Len(Machine.states.v) : Machine.states.v[k] = ResultState'
     /\ \/ Held' = Held
        \/ /\ Evaluated'
           /\ \E k \in 1..Len(Machine.transitions) :
                /\ Machine.transitions[k].from_state = Held
                /\ Machine.transitions[k].to_state = Held'
                /\ Machine.transitions[k].when.v \in Triggered']_vars
\* the second call starts in a state the first call returned, two transitions
\* leave it with their guards triggered, and the first of them is taken
C17_Witness ==
  /\ Evaluated
  /\ calls = 2
  /\ Cardinality(Enabled) = 2
  /\ args.current_state = Str(<<"s", "0">>)
  /\ ResultState = Str(<<"s", "1">>)

\* the truth of a trend: its value is present and on the trend's side of 0
Holds(name) ==
  \E k \in 1..Len(ValueOf(result).trend_values) :
    /\ ValueOf(result).trend_values[k].name = name
    /\ ValueOf(result).trend_values[k].value # <<>>
    /\ IF name = <<"n">> THEN ValueOf(result).trend_values[k].value[1].num < 1
       ELSE ValueOf(result).trend_values[k].value[1].num > 0

\* C18: NOT binds tighter than AND and AND tighter than OR, and parentheses
\* override: `a AND b OR NOT c` is (a AND b) OR (NOT c), `a AND (b OR n)` is
\* a AND (b OR n), `a AND b OR n` is (a AND b) OR n, and the last two differ
\* when a is false and n is true.
C18_LogicPrecedence ==
  Evaluated =>
    /\ <<"p", "1">> \in Triggered <=> ((Holds(<<"a">>) /\ Holds(<<"b">>)) \/ ~Holds(<<"c">>))
    /\ <<"p", "2">> \in Triggered <=> (Holds(<<"a">>) /\ (Holds(<<"b">>) \/ Holds(<<"n">>)))
    /\ <<"p", "3">> \in Triggered <=> ((Holds(<<"a">>) /\ Holds(<<"b">>)) \/ Holds(<<"n">>))
    /\ (~Holds(<<"a">>) /\ Holds(<<"n">>))
         => ((<<"p", "2">> \in Triggered) # (<<"p", "3">> \in Triggered))
\* a and c are false and n is true: `a AND b OR NOT c` is triggered, the
\* parenthesized rule is not, the unparenthesized one is
C18_Witness ==
  /\ Evaluated
  /\ ~Holds(<<"a">>) /\ Holds(<<"b">>) /\ ~Holds(<<"c">>) /\ Holds(<<"n">>)
  /\ <<"p", "1">> \in Triggered
  /\ <<"p", "2">> \notin Triggered
  /\ <<"p", "3">> \in Triggered

\* C19: is_triggered is true iff some rule is triggered, and each rule is
\* triggered iff its formula is true over the trend values and the values of
\* the rules it names.
C19_TriggeredIffFormulaTrue ==
  Evaluated =>
    /\ ValueOf(result).is_triggered <=> Triggered # {}
    /\ Triggered \subseteq Names(ValueOf(parsed).logic)
    /\ <<"p", "1">> \in Triggered <=> ((Holds(<<"a">>) /\ Holds(<<"b">>)) \/ ~Holds(<<"c">>))
    /\ <<"p", "2">> \in Triggered <=> (Holds(<<"a">>) /\ (Holds(<<"b">>) \/ Holds(<<"n">>)))
    /\ <<"p", "3">> \in Triggered <=> ((Holds(<<"a">>) /\ Holds(<<"b">>)) \/ Holds(<<"n">>))
    /\ <<"w">> \in Triggered <=> (~Holds(<<"a">>) /\ Holds(<<"b">>))
    /\ <<"q">> \in Triggered <=> (<<"w">> \in Triggered /\ Holds(<<"b">>))
    /\ <<"e">> \in Triggered <=> Holds(<<"n">>)
\* no rule is triggered although two trends hold, and is_triggered is false
C19_Witness ==
  /\ Evaluated
  /\ Triggered = {}
  /\ ~ValueOf(result).is_triggered
  /\ Holds(<<"c">>)
  /\ ValueOf(result).trend_values[4].value # <<>>

\* the points of the k-th trend's signal that lie in its window (the whole
\* series for a trend without a window)
PointsInWindow(k) ==
  LET trend == ValueOf(parsed).trends[k]
  IN {i \in 1..Len(args.data[trend.signal]) :
        trend.window # <<>> =>
          /\ args.data[trend.signal][i].timestamp <= args.reference_time
          /\ args.data[trend.signal][i].timestamp
               >= args.reference_time - (trend.window[1].value
                                             * (CASE trend.window[1].unit = "s" -> 1
                                                  [] trend.window[1].unit = "m" -> 60
                                                  [] trend.window[1].unit = "h" -> 3600
                                                  [] trend.window[1].unit = "d" -> 86400)) * MicrosPerSecond}

\* C20: a trend whose signal has no point in the window has no value, whatever
\* its operator, every rule that mentions the trend is not triggered, and the
\* evaluation returns a result with all the trends and only declared rules.
C20_NoDataIsNoValue ==
  pc = "returned" =>
    /\ ~Raised(result)
    /\ Len(ValueOf(result).trend_values) = Len(ValueOf(parsed).trends)
    /\ Triggered \subseteq Names(ValueOf(parsed).logic)
    /\ \A k \in 1..Len(ValueOf(parsed).trends) :
         PointsInWindow(k) = {} =>
           /\ ValueOf(result).trend_values[k].value = <<>>
           /\ \A j \in 1..Len(ValueOf(parsed).logic) :
                (\E x \in 1..Len(ValueOf(parsed).logic[j].terms) :
                   ValueOf(parsed).logic[j].terms[x] = ValueOf(parsed).trends[k].name)
                  => ValueOf(parsed).logic[j].name \notin Triggered

(***************************************************************************)
(* Further properties of the parser, under Spec.                           *)
(***************************************************************************)
\* C23: whatever the instance parsed before, a call ends as the call of a
\* fresh parser on the same document: the same scenario or the same error,
\* and self.errors and self.warnings hold what that document alone produces.
C23_NoHistory ==
  (pc = "idle" /\ calls >= 1) =>
    /\ outcome = parse_string(content)
    /\ errors = parse_string(content).errors
    /\ warnings = parse_string(content).warnings
\* a later call on the same instance returns a scenario with no error and
\* one warning
C23_Witness ==
  /\ pc = "idle"
  /\ calls = MaxCalls
  /\ outcome.exc = "none"
  /\ errors = <<>>
  /\ Len(warnings) = 1

\* C24: every call returns a scenario or raises PSDLParseError; no other
\* exception leaves parse_string, whatever the shape of the optional sections.
C24_OnlyParseErrors ==
  (pc = "idle" /\ calls >= 1) => outcome.exc \in {"none", "PSDLParseError"}

(***************************************************************************)
(* Grouping in logic expressions, under SpecLogic.                         *)
(***************************************************************************)
IsParenthesis(c) == c \in {"(", ")"}
NotParenthesis(c) == ~IsParenthesis(c)

\* C25 as stated: the terms and operators of an expression are those of the
\* expression with all its parentheses deleted.
C25_ParenthesesDeleted ==
  pc = "logic_done" =>
    ValueOf(parsed) = parse_logic_expr(<<"r", "1">>, SelectSeq(expr, NotParenthesis))

\* C25 as amended: the terms and operators of an expression are those of the
\* expression with every parenthesis replaced by a blank, so grouping never
\* shows in the two lists.
C25_ParenthesesAsBlanks ==
  pc = "logic_done" =>
    ValueOf(parsed)
      = parse_logic_expr(<<"r", "1">>,
                         [k \in 1..Len(expr) |-> IF IsParenthesis(expr[k]) THEN " " ELSE expr[k]])
\* `NOT(a)`: the parentheses are all that separates the keyword from the term
C25_Witness ==
  /\ pc = "logic_done"
  /\ expr = <<"N", "O", "T", "(", "a", ")">>
  /\ ValueOf(parsed) = <<<<<<"a">>>>, <<<<"N", "O", "T">>>>>>

(***************************************************************************)
(* Further properties of the operators, under SpecOperators.               *)
(***************************************************************************)
\* C26: apply_operator on each operator name of the trend grammar, with a
\* window (or without one for last), returns; stddev computes std.
C26_EveryTagDispatchable ==
  (/\ ApplyReturned
   /\ result.name \in {"delta", "slope", "ema", "sma", "min", "max", "count", "last", "first",
                       "std", "stddev", "percentile"}
   /\ (result.window # <<>> \/ result.name = "last")) =>
    /\ result.ret.exc = "none"
    /\ result.name = "stddev" =>
         Ret = std(args.data, args.window_seconds, args.reference_time)

\* the rearrangements of the data of the call
Rearranged ==
  {[i \in 1..Len(args.data) |-> args.data[f[i]]] :
     f \in {g \in [1..Len(args.data) -> 1..Len(args.data)] :
              \A i \in 1..Len(args.data) : \E j \in 1..Len(args.data) : g[j] = i}}
OrderFree == {"count", "min_val", "max_val", "sma", "percentile"}

C28_LastIgnoresWindow ==
  (ApplyReturned /\ result.name = "last") =>
    /\ result.ret = Return(IF args.data = <<>> THEN <<>>
                           ELSE <<Q(args.data[Len(args.data)].value, 1)>>)
    /\ \A s \in Scenes :
         apply_operator("last", args.data, <<s.window_seconds>>, s.reference_time) = result.ret
\* last with a window returned the value of a final point that is later than
\* T, after a point older than T - W
C28_Witness ==
  /\ ApplyReturned
  /\ result.name = "last"
  /\ result.window = <<args.window_seconds>>
  /\ Len(args.data) = 2
  /\ args.data[1].timestamp < args.reference_time - args.window_seconds * MicrosPerSecond
  /\ args.data[2].timestamp > args.reference_time
  /\ Ret = <<Q(2, 1)>>


(***************************************************************************)
(* The OMOP backend (reference/python/adapters/omop.py).  The backend      *)
(* object holds its configuration and its engine; beside them the model    *)
(* keeps what the SQLAlchemy side knows: whether the library can be        *)
(* imported, how many engines create_engine has made (engine k is the k-th *)
(* one made) and which of them were disposed.  The database's answer to a  *)
(* query is an input of the call: a failure, or any list of rows.          *)
(***************************************************************************)
MaxOperations == 3

OMOPBackend(config, importable) ==
  [config |-> config, engine |-> <<>>, sqlalchemy |-> importable, made |-> 0,
   disposed |-> {}]

\* a call's result, the backend after it, the engine the query ran on and the
\* concept id or source value the query was made for
After(res, self, used, key) == [res |-> res, self |-> self, used |-> used, key |-> key]

get_engine(self) ==
  IF self.engine # <<>> THEN After(Return(self.engine[1]), self, <<>>, <<>>)
  ELSE IF ~ self.sqlalchemy
  THEN After(Raise("ImportError", <<"SQLAlchemy is required for OMOP backend">>), self, <<>>, <<>>)
  ELSE After(Return(self.made + 1),
             [self EXCEPT !.engine = <<self.made + 1>>, !.made = self.made + 1], <<>>, <<>>)

execute_query(self, db) ==
  LET e == get_engine(self) IN
  IF Raised(e.res) THEN e
  ELSE IF ~ db.ok
  THEN After(Raise("RuntimeError", <<"Query execution failed">>), e.self, e.res.val, <<>>)
  ELSE After(Return(db.rows), e.self, e.res.val, <<>>)

\* the mutant of get_concept_id: the signal's own concept id comes first
get_concept_id_signal_first(config, signal) ==
  IF signal.concept_id # Null THEN Return(signal.concept_id.v[1])
  ELSE IF signal.name \in DOMAIN config.concept_mappings
  THEN Return(config.concept_mappings[signal.name])
  ELSE Raise("ValueError", <<"No concept_id found for signal", signal.name>>)

get_concept_id(config, signal) ==
  IF signal.name \in DOMAIN config.concept_mappings
  THEN Return(config.concept_mappings[signal.name])
  ELSE IF signal.concept_id # Null THEN Return(signal.concept_id.v[1])
  ELSE Raise("ValueError", <<"No concept_id found for signal", signal.name>>)

get_source_value(config, signal) ==
  IF signal.name \in DOMAIN config.source_value_mappings
  THEN config.source_value_mappings[signal.name]
  ELSE IF signal.source # Null THEN signal.source.v
  ELSE signal.name

fetch_signal_data(self, signal, db) ==
  LET key == IF self.config.use_source_values
             THEN Return(get_source_value(self.config, signal))
             ELSE get_concept_id(self.config, signal)
      q == execute_query(self, db)
      \* the rows of the answer that become data points
      Usable(row) == row.event_datetime # Null /\ row.value # Null
      rows == SelectSeq(ValueOf(q.res), Usable)
  IN  IF Raised(key) THEN After(key, self, <<>>, <<>>)
      ELSE IF Raised(q.res) THEN [q EXCEPT !.key = key.val]
      ELSE After(Return([k \in 1..Len(rows) |->
                           DataPoint(rows[k].event_datetime.v[1], rows[k].value.v[1])]),
                 q.self, q.used, key.val)

get_patient_ids(self, db) ==
  LET q == execute_query(self, db) IN
  IF Raised(q.res) THEN q
  ELSE After(Return([k \in 1..Len(ValueOf(q.res)) |-> ValueOf(q.res)[k].person_id]),
             q.self, q.used, <<>>)

\* the mutant of close: the engine is disposed and kept
close_keeping_engine(self) ==
  IF self.engine # <<>>
  THEN After(Return(Null), [self EXCEPT !.disposed = self.disposed \cup {self.engine[1]}],
             <<>>, <<>>)
  ELSE After(Return(Null), self, <<>>, <<>>)

close(self) ==
  IF self.engine # <<>>
  THEN After(Return(Null),
             [self EXCEPT !.disposed = self.disposed \cup {self.engine[1]}, !.engine = <<>>],
             <<>>, <<>>)
  ELSE After(Return(Null), self, <<>>, <<>>)

\* configurations, signals and database answers of the runs
Configs ==
  {[use_source_values |-> u, concept_mappings |-> m, source_value_mappings |-> s] :
     u \in BOOLEAN, m \in {<<>>, [n \in {"CustomSignal"} |-> 12345]},
     s \in {<<>>, [n \in {"CustomSignal"} |-> "custom"]}}

Signals ==
  {Signal(n, s, c, Null, "measurement") :
     n \in {"CustomSignal", "Unknown"}, s \in {Str("custom"), Null},
     c \in {Null, Num(3016723)}}

Answers ==
  LET rows == {[event_datetime |-> Num(1), value |-> Num(2), person_id |-> 1],
               [event_datetime |-> Num(2), value |-> Null, person_id |-> 2],
               [event_datetime |-> Null, value |-> Num(3), person_id |-> 3]}
  IN  {[ok |-> FALSE, rows |-> <<>>]} \cup
      {[ok |-> TRUE, rows |-> r] : r \in {<<>>} \cup {<<a>> : a \in rows}
                                     \cup {<<a, b>> : a \in rows, b \in rows}}

InitBackend ==
  /\ pc = "idle"
  /\ content = <<>>
  /\ errors = <<>>
  /\ warnings = <<>>
  /\ outcome = Pending
  /\ calls = 0
  /\ expr = <<>>
  /\ parsed = <<>>
  /\ args = <<>>
  /\ result = Pending
  /\ backend \in {OMOPBackend(c, i) : c \in Configs, i \in BOOLEAN}
  /\ files = <<>>

\* one call on the backend, from its entry to its return or its exception
Finished(op, signal, db, after) ==
  /\ calls < MaxOperations
  /\ calls' = calls + 1
  /\ args' = [op |-> op, signal |-> signal, db |-> db]
  /\ result' = [exc |-> after.res.exc, msg |-> after.res.msg, val |-> after.res.val,
                 used |-> after.used, key |-> after.key]
  /\ backend' = after.self
  /\ UNCHANGED <<pc, content, errors, warnings, outcome, expr, parsed, files>>

FetchSignalData ==
  \E signal \in Signals, db \in Answers :
    Finished("fetch_signal_data", <<signal>>, db, fetch_signal_data(backend, signal, db))

GetPatientIds ==
  \E db \in Answers : Finished("get_patient_ids", <<>>, db, get_patient_ids(backend, db))

Close == Finished("close", <<>>, [ok |-> TRUE, rows |-> <<>>], close(backend))

SpecBackend == InitBackend /\ [][FetchSignalData \/ GetPatientIds \/ Close]_vars

(***************************************************************************)
(* Claims about the OMOP backend.                                          *)
(***************************************************************************)
\* a call of the named method has come back
Came(op) == calls > 0 /\ args.op = op
\* a fetch that looks the signal up by concept id has come back
ByConcept == Came("fetch_signal_data") /\ ~ backend.config.use_source_values
Asked == args.signal[1]
Mapped == Asked.name \in DOMAIN backend.config.concept_mappings

\* C22: the concept id a fetch queries for is the config's concept_mappings
\* entry for the signal's name when there is one, also when the signal has
\* a concept id of its own; otherwise the signal's own concept id when it
\* has one; otherwise the call fails with a ValueError naming the signal.
\* A call that does not fail so has a concept id, never an absent one.
C22_ConceptIdPriority ==
  ByConcept =>
    /\ Mapped => result.key = <<backend.config.concept_mappings[Asked.name]>>
    /\ (~ Mapped /\ Asked.concept_id # Null) => result.key = Asked.concept_id.v
    /\ (~ Mapped /\ Asked.concept_id = Null) =>
         /\ result.exc = "ValueError"
         /\ result.msg = <<"No concept_id found for signal", Asked.name>>
    /\ result.exc # "ValueError" => (Len(result.key) = 1 /\ result.key[1] \in Int)

C22_Witness ==
  /\ ByConcept
  /\ Mapped
  /\ Asked.concept_id = Num(3016723)
  /\ result.key = <<12345>>
  /\ result.exc = "none"

\* the data source behind the fetch has failed: the query could not be
\* executed, or the signal has no concept id to query for
SourceFailed ==
  \/ ~ args.db.ok
  \/ ByConcept /\ ~ Mapped /\ Asked.concept_id = Null

\* C21: a fetch_signal_data whose data source fails comes back with an empty
\* list of points and raises nothing.
C21_FailureIsNoData ==
  (Came("fetch_signal_data") /\ SourceFailed) =>
    (result.exc = "none" /\ result.val = << <<>> >>)

\* this step is a call that reaches _execute_query
QueryStep ==
  /\ calls' = calls + 1
  /\ args'.op \in {"fetch_signal_data", "get_patient_ids"}
  /\ result'.exc # "ValueError"
\* this step is a call of close()
CloseStep == calls' = calls + 1 /\ args'.op = "close"

\* C29: the engine is absent until the first query; a query that finds no
\* engine makes one new engine, never a disposed one, runs on it and leaves
\* it in place; a query that finds an engine runs on that engine and makes
\* none; close() leaves the backend without an engine and changes nothing
\* when there was none; a query after close() fails only if the database
\* fails.  (Where SQLAlchemy cannot be imported no query gets an engine.)
C29_EngineLifecycle ==
  [][/\ (backend.engine = <<>> /\ ~ QueryStep) => backend'.engine = <<>>
     /\ (QueryStep /\ backend.engine = <<>> /\ backend.sqlalchemy) =>
          /\ backend'.made = backend.made + 1
          /\ backend'.engine = <<backend'.made>>
          /\ backend'.engine[1] \notin backend'.disposed
          /\ result'.used = backend'.engine
          /\ args'.db.ok => result'.exc = "none"
     /\ (QueryStep /\ backend.engine = <<>> /\ ~ backend.sqlalchemy) =>
          (backend' = backend /\ result'.exc = "ImportError")
     /\ (QueryStep /\ backend.engine # <<>>) =>
          /\ backend' = backend
          /\ result'.used = backend.engine
          /\ backend.engine[1] \notin backend.disposed
     /\ CloseStep =>
          /\ backend'.engine = <<>>
          /\ backend'.made = backend.made
          /\ backend.engine = <<>> => backend' = backend
          /\ backend.engine # <<>> => backend.engine[1] \in backend'.disposed
    ]_vars

C29_Witness ==
  /\ calls = 3
  /\ args.op = "get_patient_ids"
  /\ backend.disposed = {1}
  /\ backend.engine = <<2>>
  /\ result.used = <<2>>
  /\ result.exc = "none"

(***************************************************************************)
(* The code generation tool (tools/codegen.py).  A spec file is its        *)
(* content, 0 when the file does not exist; files.checksums is the mapping *)
(* kept in _generated/.checksums, empty when that file does not exist;     *)
(* files.signatures says whether spec/operators/signatures.yaml exists.    *)
(* What a generator needs beyond the spec files (its templates, the        *)
(* datamodel-codegen tool, the conformance specs) is an input of the run:  *)
(* the set of generators that fail on it.                                  *)
(***************************************************************************)
MaxRuns == 3

SpecFileNames == {"schema.json", "operators.yaml", "ast-nodes.yaml", "VERSION"}
Generators ==
  {"types", "operators", "sql", "ast", "transformer", "conformance", "validate"}
\* the spec file whose checksum main records after a generator
Summed ==
  [types |-> "schema.json", operators |-> "operators.yaml", sql |-> "operators.yaml",
   ast |-> "ast-nodes.yaml", transformer |-> "ast-nodes.yaml"]

compute_checksum(file) == <<"md5", file>>

needs_regeneration(fs) ==
  \E f \in SpecFileNames :
    \/ fs.spec[f] = 0
    \/ f \notin DOMAIN fs.checksums
    \/ compute_checksum(fs.spec[f]) # fs.checksums[f]

\* generator g returns True
generate(g, fs, failing) ==
  /\ g \notin failing
  /\ g = "types" => fs.spec["schema.json"] # 0
  /\ g \in {"ast", "transformer"} => fs.spec["ast-nodes.yaml"] # 0
  /\ g \in {"operators", "sql", "conformance", "validate"} =>
       (fs.signatures \/ fs.spec["operators.yaml"] # 0)

main(argv, failing, fs) ==
  LET chosen == IF argv = {} THEN {"all"} ELSE argv
      ran == {g \in Generators : "all" \in chosen \/ g \in chosen}
      success == \A g \in ran : generate(g, fs, failing)
      done == {Summed[g] : g \in {h \in ran \cap DOMAIN Summed : generate(h, fs, failing)}}
      version == IF fs.spec["VERSION"] # 0 THEN {"VERSION"} ELSE {}
      checksums == [f \in done \cup version |-> compute_checksum(fs.spec[f])]
  IN  IF "check" \in chosen
      THEN [exit |-> IF needs_regeneration(fs) THEN 1 ELSE 0, exc |-> "none", files |-> fs]
      ELSE IF \E f \in done : fs.spec[f] = 0
      THEN [exit |-> 1, exc |-> "FileNotFoundError", files |-> fs]
      ELSE IF success /\ done # {}
      THEN [exit |-> 0, exc |-> "none", files |-> [fs EXCEPT !.checksums = checksums]]
      ELSE [exit |-> IF success THEN 0 ELSE 1, exc |-> "none", files |-> fs]

InitCodegen ==
  /\ pc = "idle"
  /\ content = <<>>
  /\ errors = <<>>
  /\ warnings = <<>>
  /\ outcome = Pending
  /\ calls = 0
  /\ expr = <<>>
  /\ parsed = <<>>
  /\ args = <<>>
  /\ result = Pending
  /\ backend = <<>>
  /\ files \in {[spec |-> [f \in SpecFileNames |-> 1], signatures |-> s, checksums |-> <<>>] :
                  s \in BOOLEAN}

\* one run of the tool
Main ==
  \E argv \in {{}} \cup {{flag} : flag \in Generators \cup {"all", "check"}}
                   \cup {{"types", "operators"}, {"sql", "ast", "transformer"},
                         {"types", "operators", "ast"}, {"conformance", "validate"},
                         {"all", "check"}},
     failing \in {{}} \cup {{g} : g \in Generators} :
    /\ calls < MaxRuns
    /\ calls' = calls + 1
    /\ args' = [op |-> "main", argv |-> argv, failing |-> failing]
    /\ result' = [exc |-> main(argv, failing, files).exc, msg |-> <<>>,
                  val |-> <<main(argv, failing, files).exit>>]
    /\ files' = main(argv, failing, files).files
    /\ UNCHANGED <<pc, content, errors, warnings, outcome, expr, parsed, backend>>

\* between two runs somebody writes or deletes a spec file
Edit ==
  \E f \in SpecFileNames, c \in 0..2 :
    /\ calls < MaxRuns
    /\ c # files.spec[f]
    /\ calls' = calls + 1
    /\ args' = [op |-> "edit", argv |-> {f}, failing |-> {}]
    /\ result' = Pending
    /\ files' = [files EXCEPT !.spec[f] = c]
    /\ UNCHANGED <<pc, content, errors, warnings, outcome, expr, parsed, backend>>

SpecCodegen == InitCodegen /\ [][Main \/ Edit]_vars

(***************************************************************************)
(* Claims about the code generation tool.                                  *)
(***************************************************************************)
\* the last step was a run of the tool without --check that ended with exit
\* code 0 and wrote the checksums file
Saved ==
  /\ calls > 0
  /\ args.op = "main"
  /\ "check" \notin args.argv
  /\ result.val = <<0>>
  /\ files.checksums # <<>>
  /\ \E f \in DOMAIN Summed : "all" \in args.argv \/ args.argv = {} \/ f \in args.argv
\* this step is a run of the tool with --check
CheckStep == calls' = calls + 1 /\ args'.op = "main" /\ "check" \in args'.argv

\* C30: a --check run that directly follows a generation run which ended
\* well and saved checksums exits with 0; and a --check run exits with 1
\* whenever one of the four spec files is missing or differs from the
\* checksum last saved for it.
C30_CheckAfterGeneration ==
  [][CheckStep =>
       /\ Saved => result'.val = <<0>>
       /\ (\E f \in SpecFileNames :
             \/ files.spec[f] = 0
             \/ f \notin DOMAIN files.checksums
             \/ files.checksums[f] # <<"md5", files.spec[f]>>) => result'.val = <<1>>
    ]_vars

====
